---------------------------- MODULE Spec2Model ----------------------------
(***************************************************************************)
(* A model of the offline text-to-speech hook useTTS                       *)
(* (src/client/src/hooks/useTTS.ts): the speak()/stop() orchestration with *)
(* its IndexedDB cache, the audio element, the native speech engine, and   *)
(* the pure helpers (markdown stripping, duration, WAV export).            *)
(*                                                                         *)
(* Texts are sequences of one-character strings, so that the markdown      *)
(* stripping of speak() is computed and not assumed.                       *)
(***************************************************************************)
EXTENDS Integers, Sequences, FiniteSets, TLC

(***************************************************************************)
(* Text helpers                                                            *)
(***************************************************************************)

\* The characters matched by \s in a JavaScript regular expression that the
\* modelled texts use.
WhiteSpace == {" ", "\n", "\t"}

\* The line terminators that "." does not match.
LineTerminators == {"\n"}

Digits == {"0", "1", "2", "3", "4", "5", "6", "7", "8", "9"}

\* TRUE iff pat occurs in s at position i.
IsAt(s, i, pat) ==
    /\ i >= 1
    /\ i + Len(pat) - 1 <= Len(s)
    /\ \A k \in 1..Len(pat) : s[i + k - 1] = pat[k]

\* The least j >= i at which pat occurs in s, 0 when there is none.
FindFrom(s, i, pat) ==
    LET hits == {j \in i..Len(s) : IsAt(s, j, pat)}
    IN  IF hits = {} THEN 0 ELSE CHOOSE j \in hits : \A k \in hits : j <= k

\* The least j >= i with s[j] not in set, Len(s) + 1 when the run reaches the end.
SkipWhile(s, i, set) ==
    LET stops == {j \in i..Len(s) : s[j] \notin set}
    IN  IF stops = {} THEN Len(s) + 1 ELSE CHOOSE j \in stops : \A k \in stops : j <= k

\* s[a..b], empty when a > b.
Slice(s, a, b) == IF a > b THEN <<>> ELSE SubSeq(s, a, b)

\* The backtick, which a TLA+ string cannot hold.
Backtick == "backtick"

Fence == <<Backtick, Backtick, Backtick>>

\* The code-block pattern (fence, anything, lazily, fence) at i
MatchCodeBlock(s, i) ==
    IF ~IsAt(s, i, Fence) THEN 0
    ELSE LET j == FindFrom(s, i + 3, Fence)
         IN  IF j = 0 THEN 0 ELSE j + 3

\* The inline-code pattern (backtick, non-backticks, backtick) at i
MatchInlineCode(s, i) ==
    IF s[i] # Backtick THEN 0
    ELSE LET j == FindFrom(s, i + 1, <<Backtick>>)
         IN  IF j = 0 THEN 0 ELSE j + 1

\* /!\[.*?\]\(.*?\)/ at i: both lazy runs stay on one line.
MatchImage(s, i) ==
    IF ~IsAt(s, i, <<"!", "[">>) THEN 0
    ELSE LET CloseAt(j) == FindFrom(s, j + 2, <<")">>)
             ok == {j \in (i + 2)..Len(s) :
                      /\ IsAt(s, j, <<"]", "(">>)
                      /\ \A k \in (i + 2)..(j - 1) : s[k] \notin LineTerminators
                      /\ CloseAt(j) # 0
                      /\ \A k \in (j + 2)..(CloseAt(j) - 1) : s[k] \notin LineTerminators}
         IN  IF ok = {} THEN 0
             ELSE CloseAt(CHOOSE j \in ok : \A k \in ok : j <= k) + 1

\* /\[([^\]]+)\]\([^)]+\)/ at i
LinkClose(s, i) == FindFrom(s, i + 1, <<"]">>)
MatchLink(s, i) ==
    IF s[i] # "[" THEN 0
    ELSE LET j == LinkClose(s, i)
         IN  IF j = 0 \/ j < i + 2 \/ ~IsAt(s, j + 1, <<"(">>) THEN 0
             ELSE LET k == FindFrom(s, j + 2, <<")">>)
                  IN  IF k = 0 \/ k < j + 3 THEN 0 ELSE k + 1

\* /#{1,6}\s+/ at i
MatchHeading(s, i) ==
    IF s[i] # "#" THEN 0
    ELSE LET run == SkipWhile(s, i, {"#"}) - i
             m   == IF run > 6 THEN 6 ELSE run
             p   == i + m
         IN  IF p > Len(s) \/ s[p] \notin WhiteSpace THEN 0
             ELSE SkipWhile(s, p, WhiteSpace)

\* The emphasis pattern (**, *, __, _, ~~ or a backtick) at i
MatchEmphasis(s, i) ==
    IF s[i] \in {"*", "_", Backtick} THEN i + 1
    ELSE IF IsAt(s, i, <<"~", "~">>) THEN i + 2
    ELSE 0

\* /\n\s*[-*+]\s+/ at i
MatchBullet(s, i) ==
    IF s[i] # "\n" THEN 0
    ELSE LET p == SkipWhile(s, i + 1, WhiteSpace)
         IN  IF p + 1 > Len(s) \/ s[p] \notin {"-", "*", "+"}
                \/ s[p + 1] \notin WhiteSpace
             THEN 0
             ELSE SkipWhile(s, p + 1, WhiteSpace)

\* /\n\s*\d+\.\s+/ at i
MatchNumbered(s, i) ==
    IF s[i] # "\n" THEN 0
    ELSE LET p == SkipWhile(s, i + 1, WhiteSpace)
             q == SkipWhile(s, p, Digits)
         IN  IF q = p \/ q + 1 > Len(s) \/ s[q] # "." \/ s[q + 1] \notin WhiteSpace
             THEN 0
             ELSE SkipWhile(s, q + 1, WhiteSpace)

\* /\s{2,}/ at i
MatchSpaces(s, i) ==
    LET e == SkipWhile(s, i, WhiteSpace)
    IN  IF e - i >= 2 THEN e ELSE 0

\* String.prototype.trim
Trim(s) ==
    LET a  == SkipWhile(s, 1, WhiteSpace)
        bs == {j \in 1..Len(s) : s[j] \notin WhiteSpace}
    IN  IF bs = {} THEN <<>>
        ELSE Slice(s, a, CHOOSE j \in bs : \A k \in bs : k <= j)

\* Where the match of pattern pat that starts at i ends (the index just past
\* it), 0 when pat does not match at i. No pattern matches the empty string.
MatchEnd(pat, s, i) ==
    CASE pat = "codeBlock"  -> MatchCodeBlock(s, i)
      [] pat = "inlineCode" -> MatchInlineCode(s, i)
      [] pat = "image"      -> MatchImage(s, i)
      [] pat = "link"       -> MatchLink(s, i)
      [] pat = "heading"    -> MatchHeading(s, i)
      [] pat = "emphasis"   -> MatchEmphasis(s, i)
      [] pat = "bullet"     -> MatchBullet(s, i)
      [] pat = "numbered"   -> MatchNumbered(s, i)
      [] pat = "spaces"     -> MatchSpaces(s, i)

\* What replaces the match s[i..e-1] of pattern pat.
Replacement(pat, s, i, e) ==
    CASE pat = "link"                   -> Slice(s, i + 1, LinkClose(s, i) - 1)
      [] pat \in {"bullet", "numbered"} -> <<".", " ">>
      [] pat = "spaces"                 -> <<" ">>
      [] OTHER                          -> <<>>

\* String.prototype.replace with a global pattern, scanning from i: what is
\* left of s is kept as it is once the pattern matches nowhere in it.
RECURSIVE ReplaceAll(_, _, _)
ReplaceAll(pat, s, i) ==
    IF i > Len(s) THEN <<>>
    ELSE IF \A j \in i..Len(s) : MatchEnd(pat, s, j) = 0 THEN Slice(s, i, Len(s))
    ELSE LET e == MatchEnd(pat, s, i)
         IN  IF e = 0
             THEN <<s[i]>> \o ReplaceAll(pat, s, i + 1)
             ELSE Replacement(pat, s, i, e) \o ReplaceAll(pat, s, e)

\* The order of the replaces in speak().
CleanSteps ==
    <<"codeBlock", "inlineCode", "image", "link", "heading", "emphasis",
      "bullet", "numbered", "spaces">>

RECURSIVE ApplySteps(_, _)
ApplySteps(s, k) ==
    IF k > Len(CleanSteps) THEN s
    ELSE ApplySteps(ReplaceAll(CleanSteps[k], s, 1), k + 1)

\* The markdown stripping of speak(): the nine replaces, then trim().
CleanText(text) == Trim(ApplySteps(text, 1))

(***************************************************************************)
(* Bounds and inputs                                                       *)
(***************************************************************************)

\* How many speak() invocations a behaviour holds.
MaxCalls == 2

\* How many times the environment upsets a behaviour: by a fault (a
\* database that does not open, a cache request or transaction that fails,
\* an audio context, a rendering or an export that throws, a blob that cannot
\* be built, a play() that is refused, a source that does not load), or by
\* letting days pass.
MaxUpsets == 1

TxtHi     == <<"H", "i", ".">>
TxtBoldHi == <<"*", "*", "H", "i", ".", "*", "*">>
TxtYo     == <<"#", " ", "Y", "o">>
TxtCode   == <<Backtick, Backtick, Backtick, "x", Backtick, Backtick, Backtick>>
TxtBlank  == <<" ", "\n">>
TxtEmpty  == <<>>

\* A speaking rate is a number of tenths: 10 is the rate 1.0.
RateScale == 10

\* The options the hook is rendered with.
Opt(enabled, voice, rate) == [enabled |-> enabled, voice |-> voice, rate |-> rate]

\* The calls of speak() a behaviour draws from: the options of the render
\* the function was created in, and the text.
Requests ==
    {<<Opt(TRUE,  "alloy", 10), TxtHi>>,
     <<Opt(TRUE,  "alloy", 20), TxtBoldHi>>,
     <<Opt(TRUE,  "echo",  10), TxtHi>>,
     <<Opt(TRUE,  "alloy", 10), TxtYo>>,
     <<Opt(TRUE,  "alloy", 10), TxtCode>>,
     <<Opt(TRUE,  "alloy", 10), TxtBlank>>,
     <<Opt(TRUE,  "alloy", 10), TxtEmpty>>,
     <<Opt(FALSE, "alloy", 10), TxtHi>>}

\* The sample rate of the host's AudioContext.
SampleRate == 8000

(***************************************************************************)
(* Pure helpers of the synthesizer                                         *)
(***************************************************************************)

CeilDiv(a, b) == (a + b - 1) \div b

Min(a, b) == IF a <= b THEN a ELSE b

\* calculateDuration: (characters / 5 / 150) * 60 / rate seconds, as the
\* fraction DurationNum / DurationDen (rate is in tenths).
DurationNum(len, rate) == len * 60 * RateScale
DurationDen(rate)      == 5 * 150 * rate

\* frameCount = Math.ceil(duration * sampleRate)
FrameCount(len, rate, sr) == CeilDiv(DurationNum(len, rate) * sr, DurationDen(rate))

\* safeFrameCount without its cap.
SafeFrameCountUncapped(len, rate, sr) == FrameCount(len, rate, sr)

\* safeFrameCount = Math.min(frameCount, 10 * sampleRate)
SafeFrameCount(len, rate, sr) == Min(FrameCount(len, rate, sr), 10 * sr)

\* The byte length of exportToWavArrayBuffer's result for a buffer of
\* `frames` frames and `chans` channels.
WavByteLength(frames, chans) == 44 + frames * chans * 2

\* createFallbackBeep: numSamples = Math.floor(sampleRate * 0.5)
BeepSamples(sr) == sr \div 2

(***************************************************************************)
(* Audio payloads: what an ArrayBuffer of audio holds                      *)
(***************************************************************************)

NoAudio == [kind |-> "none", text |-> <<>>, voice |-> "", bytes |-> 0]

\* The WAV export of the one-channel buffer rendered for (text, voice, rate)
\* at the sample rate sr.
WavOf(text, voice, rate, sr) ==
    [kind |-> "wav", text |-> text, voice |-> voice,
     bytes |-> WavByteLength(SafeFrameCount(Len(text), rate, sr), 1)]

\* createFallbackBeep(sampleRate)
FallbackBeep(sr) ==
    [kind |-> "beep", text |-> <<>>, voice |-> "",
     bytes |-> 44 + BeepSamples(sr) * 2]

\* new ArrayBuffer(44)
EmptyWav == [kind |-> "empty", text |-> <<>>, voice |-> "", bytes |-> 44]

\* gainNode.gain.setValueAtTime(0.5, duration - 0.05) throws a RangeError
\* for a negative time: duration < 0.05.
EnvelopeThrows(len, rate) == DurationNum(len, rate) * 20 < DurationDen(rate)

\* synthesizeTextToAudio throws before it starts rendering: no audio
\* context can be created, the offline context is refused a length of 0, or
\* the envelope's time is negative.
SetupThrows(len, rate, sr, ctxOk) ==
    \/ ~ctxOk
    \/ SafeFrameCount(len, rate, sr) = 0
    \/ EnvelopeThrows(len, rate)

\* What synthesizeTextToAudio resolves with: it catches every failure.
SynthesizeTextToAudio(text, voice, rate, sr, ctxOk, renderOk, exportOk) ==
    IF SetupThrows(Len(text), rate, sr, ctxOk) THEN EmptyWav
    ELSE IF ~renderOk THEN FallbackBeep(sr)
    ELSE IF ~exportOk THEN FallbackBeep(sr)
    ELSE WavOf(text, voice, rate, sr)

(***************************************************************************)
(* The cache key                                                           *)
(***************************************************************************)

\* String.prototype.charCodeAt for the characters the modelled texts use.
CharCode(c) ==
    CASE c = " "  -> 32  [] c = "\n" -> 10  [] c = "#" -> 35  [] c = "*" -> 42
      [] c = "."  -> 46  [] c = "A"  -> 65  [] c = "B" -> 66  [] c = "H" -> 72
      [] c = "Y"  -> 89  [] c = "a"  -> 97  [] c = "i" -> 105 [] c = "o" -> 111
      [] c = "x"  -> 120 [] c = Backtick -> 96 [] c = "_" -> 95
      [] c = "1"  -> 49  [] c = "-" -> 45

\* A 32-bit word as its two 16-bit halves, so that no intermediate value
\* leaves the range of the model checker's integers.
HalfMod == 65536

\* hash << 5 on the halves.
ShiftLeft5(h) ==
    [hi |-> (h.hi * 32 + (h.lo \div 2048)) % HalfMod, lo |-> (h.lo * 32) % HalfMod]

\* The step with the subtraction left out: hash = (hash << 5) + charCode.
HashStepShiftOnly(h, code) ==
    LET s  == ShiftLeft5(h)
        lo == s.lo + code
        hi == s.hi + (lo \div HalfMod)
    IN  [hi |-> hi % HalfMod, lo |-> lo % HalfMod]

\* hash = ((hash << 5) - hash) + charCode; hash |= 0   on the halves: the
\* shifted word, less the word, plus the code, modulo 2^32 (the subtraction
\* and the addition are exact in JavaScript, and |= 0 wraps the result).
HashStep(h, code) ==
    LET s  == ShiftLeft5(h)
        lo == s.lo - h.lo + code
        hi == s.hi - h.hi + (lo \div HalfMod)
    IN  [hi |-> hi % HalfMod, lo |-> lo % HalfMod]

\* The loop from character i on (the test of the word has each step
\* computed before the next one is taken).
RECURSIVE HashFrom(_, _, _)
HashFrom(text, i, h) ==
    IF h.hi < HalfMod /\ i > Len(text) THEN h
    ELSE HashFrom(text, i + 1, HashStep(h, CharCode(text[i])))

\* The signed 32-bit value of the halves.
ToInt32(h) ==
    IF h.hi >= HalfMod \div 2
    THEN (h.hi - HalfMod) * HalfMod + h.lo
    ELSE h.hi * HalfMod + h.lo

TextHash(text) == ToInt32(HashFrom(text, 1, [hi |-> 0, lo |-> 0]))

\* generateCacheKey: `${voice}_${hash}_${text.substring(0, 20)}`, kept as its
\* three components.
GenerateCacheKey(text, voice) ==
    <<voice, TextHash(text), Slice(text, 1, Min(20, Len(text)))>>

\* Number.prototype.toString of a non-negative integer, as characters.
RECURSIVE DigitsOf(_)
DigitsOf(n) ==
    LET d == <<"0", "1", "2", "3", "4", "5", "6", "7", "8", "9">>[(n % 10) + 1]
    IN  IF n < 10 THEN <<d>> ELSE DigitsOf(n \div 10) \o <<d>>

\* The template literal's ${hash}.
DecimalOf(n) == IF n < 0 THEN <<"-">> \o DigitsOf(0 - n) ELSE DigitsOf(n)

\* A voice id as its characters.
VoiceChars(voice) ==
    CASE voice = "alloy" -> <<"a", "l", "l", "o", "y">>
      [] voice = "echo"  -> <<"e", "c", "h", "o">>
      [] voice = "nova"  -> <<"n", "o", "v", "a">>
      [] voice = ""      -> <<>>

\* generateCacheKey's string: `${voice}_${hash}_${text.substring(0, 20)}`.
KeyString(text, voice) ==
    VoiceChars(voice) \o <<"_">> \o DecimalOf(TextHash(text)) \o <<"_">>
        \o Slice(text, 1, Min(20, Len(text)))

\* 14 * 24 * 60 * 60 * 1000 milliseconds
RetentionMs == 14 * 24 * 60 * 60 * 1000

\* The test with the record of exactly 14 days kept.
IsFreshInclusive(rec, nowMs) == nowMs - rec.timestamp <= RetentionMs

\* The test of getFromCache's onsuccess on a stored record.
IsFresh(rec, nowMs) == nowMs - rec.timestamp < RetentionMs

(***************************************************************************)
(* State                                                                   *)
(***************************************************************************)

VARIABLES
    available,  \* useState: the AudioContext could be created
    hook,       \* useState: isSpeaking, isLoading, error
    audio,      \* audioRef.current, the audio element
    native,     \* synthesisRef.current, the native speech engine
    db,         \* cacheDBRef.current and its two object stores
    calls,      \* the speak() invocations, in call order
    now,        \* Date.now()
    upsets,     \* how often the environment upset the behaviour
    calc        \* a call of one of the module-level functions: its
                \* arguments and, once it returned, its result

vars == <<available, hook, audio, native, db, calls, now, upsets, calc>>

\* The hook's own variables.
hookVars == <<available, hook, audio, native, db, calls, now, upsets>>

\* No call of a module-level function is looked at.
NoCalc == [fn |-> "none"]

CallIds == 1..MaxCalls

\* The error state's null.
NoError == "null"

\* The fixed utterance of the playback-failure paths, as one text.
ApologyText == <<"Audio playback failed. Using fallback voice.">>

\* A speak() invocation: where it stands (pc), what it closed over (text is
\* the cleaned text; voice and rate are the options of the render it was
\* called in), and a record of what it did.
\*   pc         "none" not called, "cache" awaiting the cache request,
\*              "render" awaiting startRendering, "resolved", "rejected"
\*   found      the record its cache request reads, <<>> for none: the one
\*              stored when the request was made, since the database serves
\*              a request before any transaction created after it
\*   lookup     "none", "hit", "miss": what getFromCache resolved with
\*   readFailed the cache request erred (or opening the transaction threw)
\*   readAt     Date.now() when the cache request ended, -1 before
\*   synth      how often synthesizeTextToAudio was invoked
\*   synthOk    the rendering and the export both succeeded
\*   data       the audio it obtained, from the cache or the synthesizer
\*   wrote      its cache put was committed
\*   handed     the audio it assigned to the audio element's src
\*   played     it called play() on the audio element
\*   blobThrew  building the blob or its URL threw
\*   uttered    the texts it handed to the native engine
\*   superseded another speak() was called while it was awaiting
\*   after      the invocations that had finished when it was called
NoCall ==
    [pc |-> "none", text |-> <<>>, enabled |-> FALSE, voice |-> "", rate |-> 0,
     found |-> <<>>, lookup |-> "none", readFailed |-> FALSE, readAt |-> -1,
     synth |-> 0, synthOk |-> FALSE, data |-> NoAudio, wrote |-> FALSE,
     handed |-> NoAudio, played |-> FALSE, blobThrew |-> FALSE, uttered |-> {},
     superseded |-> FALSE, after |-> {}]

InFlight(c) == c.pc \in {"cache", "render"}
Finished(c) == c.pc \in {"resolved", "rejected"}

\* The state the operations of one task work on; `rejected` counts the play()
\* promises rejected in the task, whose catch handlers run as microtasks at
\* its end, `threw` says that the operation just applied threw, `used` names
\* the environment's upsets that took effect in the task.
World ==
    [hook |-> hook, audio |-> audio, native |-> native, db |-> db,
     calls |-> calls, rejected |-> 0, threw |-> FALSE, used |-> {}]

\* The upsets an environment choice e holds.
FaultsOf(e) ==
    {f \in {"blobThrows", "load"} : e[f]}
    \cup {f \in {"allowed", "putOk", "readOk", "ctxOk", "renderOk", "exportOk"} : ~e[f]}

\* The task ends in world w under the environment's choice e: every fault
\* chosen took effect, and the behaviour's upsets stay within the bound.
Commit(w, e) ==
    /\ FaultsOf(e) = w.used
    /\ upsets + Cardinality(w.used) <= MaxUpsets
    /\ upsets' = upsets + Cardinality(w.used)
    /\ hook'   = w.hook
    /\ audio'  = w.audio
    /\ native' = w.native
    /\ db'     = w.db
    /\ calls'  = w.calls

(***************************************************************************)
(* The audio element (HTMLMediaElement), as the hook uses it               *)
(***************************************************************************)

\* load: "loading" after src was set, "ready" once it can play, "failed"
\* when the source cannot be loaded, "empty" before any src.
\* pending: the play() promises neither resolved nor rejected.
\* events: the queued events of the element, oldest first; a pause event
\* carries the number of play() promises its task rejects.
AudioInit ==
    [src |-> NoAudio, paused |-> TRUE, pos |-> 0, playbackRate |-> RateScale,
     load |-> "empty", playing |-> FALSE, pending |-> 0, events |-> <<>>]

RECURSIVE SumRejects(_)
SumRejects(evs) ==
    IF evs = <<>> THEN 0 ELSE Head(evs).rejects + SumRejects(Tail(evs))

\* audioRef.current.pause(): no effect on a paused element; otherwise paused
\* becomes true and a task is queued that fires pause and rejects the pending
\* play() promises.
AudioPause(w) ==
    IF w.audio.paused THEN w
    ELSE [w EXCEPT !.audio.paused = TRUE,
                   !.audio.playing = FALSE,
                   !.audio.pending = 0,
                   !.audio.events =
                       Append(@, [type |-> "pause", rejects |-> w.audio.pending])]

\* audioRef.current.src = audioUrl: the load algorithm drops the element's
\* queued events, rejects at once the promises they would have rejected and
\* the pending ones, pauses and rewinds the element, and starts loading.
AudioSetSrc(w, data) ==
    [w EXCEPT !.audio.src = data,
              !.audio.paused = TRUE,
              !.audio.pos = 0,
              !.audio.load = "loading",
              !.audio.playing = FALSE,
              !.audio.pending = 0,
              !.audio.events = <<>>,
              !.rejected = @ + w.audio.pending + SumRejects(w.audio.events)]

\* audioRef.current.play(): rejected at once when the page may not play
\* audio; otherwise the element leaves the paused state, a play event is
\* queued and the promise stays pending until the source plays or fails.
AudioPlay(w, allowed) ==
    IF ~allowed THEN [w EXCEPT !.rejected = @ + 1, !.used = @ \cup {"allowed"}]
    ELSE [w EXCEPT !.audio.paused = FALSE,
                   !.audio.pending = @ + 1,
                   !.audio.events =
                       IF w.audio.paused
                       THEN Append(@, [type |-> "play", rejects |-> 0])
                       ELSE @]

(***************************************************************************)
(* The native speech engine (SpeechSynthesis), as the hook uses it         *)
(***************************************************************************)

\* queue: the utterances handed to speak(), oldest first; hooked says that
\* the utterance carries the hook's onstart/onend handlers. started: the
\* head of the queue is being spoken.
\* throws: the engine throws when asked to speak.
NativeInit(present, throws) ==
    [present |-> present, throws |-> throws, queue |-> <<>>, started |-> FALSE]

\* synthesisRef.current.speaking: an utterance has begun being spoken.
NativeSpeaking(n) == n.started

\* synthesisRef.current.speak(utterance)
NativeSpeak(w, text, hooked) ==
    IF w.native.throws THEN [w EXCEPT !.threw = TRUE]
    ELSE [w EXCEPT !.native.queue = Append(@, [text |-> text, hooked |-> hooked])]

\* synthesisRef.current.cancel()
NativeCancel(w) ==
    [w EXCEPT !.native.queue = <<>>, !.native.started = FALSE]

(***************************************************************************)
(* The hook's operations                                                   *)
(***************************************************************************)

\* The choices the environment makes in one task:
\*   blobThrows    building the blob or its URL throws
\*   load          the source set on the audio element does not load
\*   allowed       the page may start audio playback
\*   putOk         the cache transaction commits
\*   readOk        the cache request succeeds (and its transaction opened)
\*   ctxOk         the audio contexts can be created
\*   renderOk      startRendering resolves
\*   exportOk      exportToWavArrayBuffer returns
NoFault ==
    [blobThrows |-> FALSE, load |-> FALSE, allowed |-> TRUE,
     putOk |-> TRUE, readOk |-> TRUE, ctxOk |-> TRUE, renderOk |-> TRUE,
     exportOk |-> TRUE]

\* The choices that bear on playAudioBuffer (a blob that throws leaves
\* play() uncalled).
PlayEnvs ==
    {e \in {[NoFault EXCEPT !.blobThrows = b, !.allowed = a] :
                b \in BOOLEAN, a \in BOOLEAN} :
        e.blobThrows => e.allowed}

\* ... on the cache write followed by playAudioBuffer
SaveEnvs == {[e EXCEPT !.putOk = p] : e \in PlayEnvs, p \in BOOLEAN}

\* ... on the end of the rendering (an export is tried after a successful
\* rendering only), the cache write and playAudioBuffer
RenderEnvs ==
    {f \in {[e EXCEPT !.renderOk = r, !.exportOk = x] :
                e \in SaveEnvs, r \in BOOLEAN, x \in BOOLEAN} :
        ~f.renderOk => f.exportOk}

\* ... on the lookup's result: a hit goes to playAudioBuffer, a miss starts
\* the synthesizer, which ends at once when no audio context can be created
LookupEnvs(hit) ==
    IF hit THEN PlayEnvs
    ELSE {NoFault} \cup {[e EXCEPT !.ctxOk = FALSE] : e \in SaveEnvs}

\* stop() without its hold on the audio element.
StopNativeOnly(w) ==
    LET w2 == IF w.native.present /\ NativeSpeaking(w.native)
              THEN NativeCancel(w)
              ELSE w
    IN  [w2 EXCEPT !.hook.isSpeaking = FALSE]

\* stop()
Stop(w) ==
    LET w1 == [AudioPause(w) EXCEPT !.audio.pos = 0]
        w2 == IF w1.native.present /\ NativeSpeaking(w1.native)
              THEN NativeCancel(w1)
              ELSE w1
    IN  [w2 EXCEPT !.hook.isSpeaking = FALSE]

\* useBrowserTTS(text), called on behalf of invocation i
UseBrowserTTS(w, i, text) ==
    IF ~w.native.present
    THEN [w EXCEPT !.hook.error = "Speech synthesis not available"]
    ELSE LET w1 == NativeSpeak(w, text, TRUE)
         IN  IF w1.threw THEN w1
             ELSE [w1 EXCEPT !.calls[i].uttered = @ \cup {text}]

\* The catch handler of play() speaking the text of the element's audio
\* in place of the fixed utterance.
PlayCatchOriginalText(w) ==
    LET w1 == [w EXCEPT !.hook.error =
                          "Failed to play audio. Try again or check browser settings.",
                        !.hook.isSpeaking = FALSE]
    IN  IF w1.native.present
        THEN [NativeSpeak(w1, w.audio.src.text, FALSE) EXCEPT !.threw = FALSE]
        ELSE w1

\* The catch handler of audioRef.current.play(); an exception thrown in it
\* goes nowhere.
PlayCatch(w) ==
    LET w1 == [w EXCEPT !.hook.error =
                          "Failed to play audio. Try again or check browser settings.",
                        !.hook.isSpeaking = FALSE]
    IN  IF w1.native.present
        THEN [NativeSpeak(w1, ApologyText, FALSE) EXCEPT !.threw = FALSE]
        ELSE w1

\* The microtasks at the end of a task: one catch handler per play() promise
\* rejected in it.
RECURSIVE RunCatches(_)
RunCatches(w) ==
    IF w.rejected = 0 THEN w
    ELSE RunCatches(PlayCatch([w EXCEPT !.rejected = @ - 1]))

\* playAudioBuffer leaving the element's playbackRate alone.
PlayAudioBufferDefaultRate(w, i, data, e) ==
    IF e.blobThrows
    THEN UseBrowserTTS([w EXCEPT !.hook.error = "Error playing audio",
                                 !.calls[i].blobThrew = TRUE,
                                 !.used = @ \cup {"blobThrows"}],
                       i, ApologyText)
    ELSE LET w1 == AudioSetSrc(w, data)
             w2 == [w1 EXCEPT !.calls[i].handed = data,
                              !.calls[i].played = TRUE]
         IN  AudioPlay(w2, e.allowed)

\* playAudioBuffer(audioData), called by invocation i
PlayAudioBuffer(w, i, data, e) ==
    IF e.blobThrows
    THEN UseBrowserTTS([w EXCEPT !.hook.error = "Error playing audio",
                                 !.calls[i].blobThrew = TRUE,
                                 !.used = @ \cup {"blobThrows"}],
                       i, ApologyText)
    ELSE LET w1 == AudioSetSrc(w, data)
             w2 == [w1 EXCEPT !.audio.playbackRate = w.calls[i].rate,
                              !.calls[i].handed = data,
                              !.calls[i].played = TRUE]
         IN  AudioPlay(w2, e.allowed)

\* The record with the time the database was created at.
CacheItemUndated(c, data, nowMs) ==
    [timestamp |-> 0, voice |-> c.voice, textLength |-> Len(c.text),
     audioData |-> data]

\* The record saveToCache puts under the key.
CacheItem(c, data, nowMs) ==
    [timestamp |-> nowMs, voice |-> c.voice, textLength |-> Len(c.text),
     audioData |-> data]

\* The record saveToCache adds to ttsStats.
StatItem(c, nowMs) ==
    [date |-> nowMs, voice |-> c.voice, textLength |-> Len(c.text),
     generated |-> TRUE]

\* saveToCache reporting a write that failed in the error state.
SaveToCacheReporting(w, i, data, e, nowMs) ==
    LET c == w.calls[i]
    IN  IF w.db.state # "open" THEN w
        ELSE IF ~e.putOk
        THEN [w EXCEPT !.used = @ \cup {"putOk"},
                       !.hook.error = "Error saving to cache"]
        ELSE [w EXCEPT
                !.db.audioCache =
                    (GenerateCacheKey(c.text, c.voice) :> CacheItem(c, data, nowMs)) @@ @,
                !.db.ttsStats = Append(@, StatItem(c, nowMs)),
                !.calls[i].wrote = TRUE]

\* saveToCache with the put alone.
SaveToCacheWithoutStats(w, i, data, e, nowMs) ==
    LET c == w.calls[i]
    IN  IF w.db.state # "open" THEN w
        ELSE IF ~e.putOk THEN [w EXCEPT !.used = @ \cup {"putOk"}]
        ELSE [w EXCEPT
                !.db.audioCache =
                    (GenerateCacheKey(c.text, c.voice) :> CacheItem(c, data, nowMs)) @@ @,
                !.calls[i].wrote = TRUE]

\* saveToCache(cacheKey, audioData, text, voice): put and add are one
\* transaction; a throw is caught and an abort goes unnoticed.
SaveToCache(w, i, data, e, nowMs) ==
    LET c == w.calls[i]
    IN  IF w.db.state # "open" THEN w
        ELSE IF ~e.putOk THEN [w EXCEPT !.used = @ \cup {"putOk"}]
        ELSE [w EXCEPT
                !.db.audioCache =
                    (GenerateCacheKey(c.text, c.voice) :> CacheItem(c, data, nowMs)) @@ @,
                !.db.ttsStats = Append(@, StatItem(c, nowMs)),
                !.calls[i].wrote = TRUE]

\* The end of speak() without its finally block.
SettleWithoutFinally(w, i) ==
    [w EXCEPT !.calls[i].pc = IF w.threw THEN "rejected" ELSE "resolved",
              !.threw = FALSE]

\* The end of speak(): the finally block, and how the promise settles.
Settle(w, i) ==
    [w EXCEPT !.hook.isLoading = FALSE,
              !.calls[i].pc = IF w.threw THEN "rejected" ELSE "resolved",
              !.threw = FALSE]

\* The outer catch of speak()
OuterCatch(w, i) ==
    IF ~w.threw THEN w
    ELSE UseBrowserTTS([w EXCEPT !.threw = FALSE, !.hook.error = "TTS error: message"],
                       i, w.calls[i].text)

\* The inner catch of speak(), around synthesis, cache write and playback
InnerCatch(w, i) ==
    IF ~w.threw THEN w
    ELSE UseBrowserTTS([w EXCEPT !.threw = FALSE], i, w.calls[i].text)

\* speak() from a cache hit on, storing the audio once more.
FinishHitResaving(w, i, data, e) ==
    LET w0 == SaveToCache([w EXCEPT !.calls[i].data = data], i, data, e,
                          w.calls[i].found[1].timestamp)
        w1 == PlayAudioBuffer(w0, i, data, e)
    IN  Settle(OuterCatch(w1, i), i)

\* speak() from a cache hit on
FinishHit(w, i, data, e) ==
    LET w1 == PlayAudioBuffer([w EXCEPT !.calls[i].data = data], i, data, e)
    IN  Settle(OuterCatch(w1, i), i)

\* speak() from the synthesized audio on, with the cache write left out.
FinishMissUnsaved(w, i, data, e, nowMs) ==
    LET w1 == [w EXCEPT !.calls[i].data = data]
        w2 == PlayAudioBuffer(w1, i, data, e)
    IN  Settle(OuterCatch(InnerCatch(w2, i), i), i)

\* speak() from the audio synthesizeTextToAudio resolved with on
FinishMiss(w, i, data, e, nowMs) ==
    LET w1 == SaveToCache([w EXCEPT !.calls[i].data = data], i, data, e, nowMs)
        w2 == PlayAudioBuffer(w1, i, data, e)
    IN  Settle(OuterCatch(InnerCatch(w2, i), i), i)

\* speak() from the result of getFromCache on: cached is NoAudio for null.
\* On a miss synthesizeTextToAudio runs up to startRendering; a throw before
\* that makes it resolve with the empty buffer at once.
AfterLookup(w, i, cached, e, nowMs) ==
    LET c == w.calls[i]
    IN  IF cached # NoAudio
        THEN FinishHit([w EXCEPT !.calls[i].lookup = "hit"], i, cached, e)
        ELSE LET w1 == [w EXCEPT !.calls[i].lookup = "miss",
                                 !.calls[i].synth = @ + 1]
             IN  IF SetupThrows(Len(c.text), c.rate, SampleRate, TRUE)
                 THEN FinishMiss(w1, i, EmptyWav, e, nowMs)
                 ELSE IF SetupThrows(Len(c.text), c.rate, SampleRate, e.ctxOk)
                 THEN FinishMiss([w1 EXCEPT !.used = @ \cup {"ctxOk"}],
                                 i, EmptyWav, e, nowMs)
                 ELSE [w1 EXCEPT !.calls[i].pc = "render"]

\* speak(text) as invocation i, up to its first suspension that waits for
\* the environment.
SpeakEffect(w, i, options, raw, e, nowMs) ==
    LET clean == CleanText(raw)
        w0 == [w EXCEPT !.calls[i] =
                 [NoCall EXCEPT !.pc = "resolved", !.text = clean,
                                !.enabled = options.enabled,
                                !.voice = options.voice, !.rate = options.rate,
                                !.after = {j \in CallIds : Finished(w.calls[j])}]]
    IN  IF ~options.enabled \/ ~available THEN w0
        ELSE LET w1 == Stop(w0)
             IN  IF clean = <<>> THEN w1
                 ELSE LET w2 == [w1 EXCEPT
                                   !.hook.isLoading = TRUE,
                                   !.hook.error = NoError,
                                   !.calls = [j \in CallIds |->
                                       IF j = i THEN [@[j] EXCEPT !.pc = "cache"]
                                       ELSE IF InFlight(@[j])
                                            THEN [@[j] EXCEPT !.superseded = TRUE]
                                            ELSE @[j]]]
                          key == GenerateCacheKey(clean, options.voice)
                      IN  IF w2.db.state # "open"
                          THEN AfterLookup(w2, i, NoAudio, e, nowMs)
                          ELSE [w2 EXCEPT !.calls[i].found =
                                   IF key \in DOMAIN w2.db.audioCache
                                   THEN <<w2.db.audioCache[key]>>
                                   ELSE <<>>]

\* getFromCache never finding anything.
GetFromCacheNothing(found, readOk, nowMs) == NoAudio

\* What getFromCache resolves with when its request ends: found is the
\* record read, <<>> for none; NoAudio stands for null.
GetFromCache(found, readOk, nowMs) ==
    IF readOk /\ found # <<>> /\ IsFresh(found[1], nowMs)
    THEN found[1].audioData
    ELSE NoAudio

(***************************************************************************)
(* Actions                                                                 *)
(***************************************************************************)

ClockValues == {0, RetentionMs - 1, RetentionMs, RetentionMs + 1}

Init ==
    /\ available \in BOOLEAN
    /\ hook = [isSpeaking |-> FALSE, isLoading |-> FALSE,
               error |-> IF available THEN NoError
                         ELSE "Advanced audio features not supported in this browser"]
    /\ audio = AudioInit
    /\ native \in {NativeInit(TRUE, FALSE), NativeInit(TRUE, TRUE),
                  NativeInit(FALSE, FALSE)}
    /\ db = [state |-> "opening", audioCache |-> << >>, ttsStats |-> << >>]
    /\ calls = [i \in CallIds |-> NoCall]
    /\ now = 0
    /\ upsets = 0
    /\ calc = NoCalc

\* initCache(): the database opens, or fails to.
OpenCache ==
    /\ db.state = "opening"
    /\ db' = [db EXCEPT !.state = "open"]
    /\ UNCHANGED <<calc, available, hook, audio, native, calls, now, upsets>>

\* initCache(): opening the database fails (the rejection is caught).
OpenCacheFails ==
    /\ db.state = "opening"
    /\ upsets < MaxUpsets
    /\ upsets' = upsets + 1
    /\ db' = [db EXCEPT !.state = "failed"]
    /\ UNCHANGED <<calc, available, hook, audio, native, calls, now>>

\* Days pass. Only the age of a cache record tells the time, so the clock
\* is left alone while the cache is empty.
Tick ==
    /\ DOMAIN db.audioCache # {}
    /\ upsets < MaxUpsets
    /\ upsets' = upsets + 1
    /\ \E t \in ClockValues : t > now /\ now' = t
    /\ UNCHANGED <<calc, available, hook, audio, native, db, calls>>

\* The next unused invocation, 0 when all are used.
NextCall ==
    IF \A i \in CallIds : calls[i].pc # "none" THEN 0
    ELSE CHOOSE i \in CallIds :
            calls[i].pc = "none" /\ \A j \in 1..(i - 1) : calls[j].pc # "none"

\* A caller calls speak(raw) of the render the hook got `options` in.
Speak(options, raw) ==
    /\ NextCall # 0
    /\ \E e \in LookupEnvs(FALSE) :
          Commit(RunCatches(SpeakEffect(World, NextCall, options, raw, e, now)), e)
    /\ UNCHANGED <<calc, available, now>>

\* A caller calls stop().
StopCall ==
    /\ Commit(Stop(World), NoFault)
    /\ UNCHANGED <<calc, available, now>>

\* The cache request of invocation i ends.
CacheReadDone(i) ==
    /\ calls[i].pc = "cache"
    /\ \E readOk \in BOOLEAN :
          LET c      == calls[i]
              cached == GetFromCache(c.found, readOk, now)
              w0     == [World EXCEPT
                           !.used = IF readOk THEN {} ELSE {"readOk"},
                           !.calls[i].readFailed = ~readOk,
                           !.calls[i].readAt = now]
          IN  \E e \in LookupEnvs(cached # NoAudio) :
                 Commit(RunCatches(AfterLookup(w0, i, cached, e, now)),
                        [e EXCEPT !.readOk = readOk])
    /\ UNCHANGED <<calc, available, now>>

\* The offline rendering of invocation i ends.
RenderDone(i) ==
    /\ calls[i].pc = "render"
    /\ \E e \in RenderEnvs :
          LET c    == calls[i]
              data == SynthesizeTextToAudio(c.text, c.voice, c.rate, SampleRate,
                                            TRUE, e.renderOk, e.exportOk)
              w0   == [World EXCEPT
                         !.calls[i].synthOk = e.renderOk /\ e.exportOk,
                         !.used = {f \in {"renderOk", "exportOk"} : ~e[f]}]
          IN  Commit(RunCatches(FinishMiss(w0, i, data, e, now)), e)
    /\ UNCHANGED <<calc, available, now>>

\* The element's oldest queued event is dispatched: onplay, onpause, and the
\* rejections a pause task carries.
DispatchEvent ==
    /\ audio.events # <<>>
    /\ LET ev == Head(audio.events)
              w1 == [World EXCEPT !.audio.events = Tail(@),
                                  !.hook.isSpeaking = (ev.type = "play"),
                                  !.rejected = ev.rejects]
       IN  Commit(RunCatches(w1), NoFault)
    /\ UNCHANGED <<calc, available, now>>

\* The source has loaded: a waiting play() starts playing (its position
\* leaves 0) and its promises resolve. An empty buffer is no audio and never
\* loads.
AudioLoaded ==
    /\ audio.load = "loading"
    /\ audio.events = <<>>
    /\ audio.src.kind # "empty"
    /\ audio' = [audio EXCEPT !.load = "ready",
                              !.playing = ~audio.paused,
                              !.pos = IF audio.paused THEN @ ELSE 1,
                              !.pending = 0]
    /\ UNCHANGED <<calc, available, hook, native, db, calls, now, upsets>>

\* The source cannot be loaded: onerror runs and the pending play() promises
\* are rejected. An empty buffer always ends so; for any other source this
\* is an upset.
AudioLoadError ==
    /\ audio.load = "loading"
    /\ audio.events = <<>>
    /\ LET upset == audio.src.kind # "empty"
           w1 == [World EXCEPT !.audio.load = "failed",
                                  !.audio.pending = 0,
                                  !.hook.error = "Audio playback failed",
                                  !.hook.isSpeaking = FALSE,
                                  !.rejected = audio.pending,
                                  !.used = IF upset THEN {"load"} ELSE {}]
       IN  Commit(RunCatches(w1), [NoFault EXCEPT !.load = upset])
    /\ UNCHANGED <<calc, available, now>>

\* Playback reaches the end: the element pauses itself, onpause and onended
\* run.
AudioEnded ==
    /\ audio.playing
    /\ audio.events = <<>>
    /\ audio' = [audio EXCEPT !.playing = FALSE, !.paused = TRUE, !.pos = 1]
    /\ hook' = [hook EXCEPT !.isSpeaking = FALSE]
    /\ UNCHANGED <<calc, available, native, db, calls, now, upsets>>

\* The native engine begins the oldest utterance: utterance.onstart.
NativeStart ==
    /\ native.queue # <<>>
    /\ ~native.started
    /\ native' = [native EXCEPT !.started = TRUE]
    /\ hook' = IF Head(native.queue).hooked
               THEN [hook EXCEPT !.isSpeaking = TRUE]
               ELSE hook
    /\ UNCHANGED <<calc, available, audio, db, calls, now, upsets>>

\* The native engine ends the utterance it speaks: utterance.onend.
NativeEnd ==
    /\ native.started
    /\ native' = [native EXCEPT !.queue = Tail(@), !.started = FALSE]
    /\ hook' = IF Head(native.queue).hooked
               THEN [hook EXCEPT !.isSpeaking = FALSE]
               ELSE hook
    /\ UNCHANGED <<calc, available, audio, db, calls, now, upsets>>

Next ==
    \/ OpenCache
    \/ OpenCacheFails
    \/ Tick
    \/ \E r \in Requests : Speak(r[1], r[2])
    \/ StopCall
    \/ \E i \in CallIds : CacheReadDone(i)
    \/ \E i \in CallIds : RenderDone(i)
    \/ DispatchEvent
    \/ AudioLoaded
    \/ AudioLoadError
    \/ AudioEnded
    \/ NativeStart
    \/ NativeEnd

Spec == Init /\ [][Next]_vars

(***************************************************************************)
(* Properties of the hook                                                  *)
(***************************************************************************)

\* Invocation j read a record of the cache that was younger than the
\* retention window when its request ended.
ReadFresh(j) ==
    /\ calls[j].found # <<>>
    /\ calls[j].readAt - calls[j].found[1].timestamp < 14 * 24 * 60 * 60 * 1000

\* The pairs <<i, j>>: invocation i had finished with its cache write
\* committed when speak() was called again, as invocation j, with the same
\* text and voice (TTS enabled, the audio subsystem available), and j
\* finished having found an entry younger than 14 days.
RepeatedCalls ==
    {p \in CallIds \X CallIds :
        /\ p[1] \in calls[p[2]].after
        /\ calls[p[1]].wrote
        /\ available
        /\ calls[p[2]].enabled
        /\ calls[p[2]].text # <<>>
        /\ calls[p[2]].text = calls[p[1]].text
        /\ calls[p[2]].voice = calls[p[1]].voice
        /\ Finished(calls[p[2]])
        /\ ReadFresh(p[2])}

\* C1, as stated: cache idempotence. A repeated call takes the cache-hit
\* path: it invokes synthesizeTextToAudio zero times, writes nothing to the
\* cache and hands the audio element the bytes the first call obtained and
\* played.
C1_AsStated ==
    \A p \in RepeatedCalls :
        /\ calls[p[2]].lookup = "hit"
        /\ calls[p[2]].synth = 0
        /\ ~calls[p[2]].wrote
        /\ calls[p[2]].handed = calls[p[1]].data

\* C1, amended: a repeated call whose cache read does not fail, and finds
\* the entry the first call stored, takes the cache-hit path: it invokes
\* synthesizeTextToAudio zero times, writes nothing to the cache and, unless
\* building the blob or its URL throws, hands the audio element the bytes
\* the first call stored.
C1_CacheIdempotence ==
    \A p \in RepeatedCalls :
        (/\ ~calls[p[2]].readFailed
         /\ calls[p[2]].found[1].audioData = calls[p[1]].data)
        => /\ calls[p[2]].lookup = "hit"
           /\ calls[p[2]].synth = 0
           /\ ~calls[p[2]].wrote
           /\ calls[p[2]].handed =
                 IF calls[p[2]].blobThrew THEN NoAudio ELSE calls[p[1]].data

\* A repeated call, at another rate, was served from the cache the bytes
\* the first call had synthesized and stored.
C1_Witness ==
    \E p \in RepeatedCalls :
        /\ ~calls[p[2]].readFailed
        /\ calls[p[1]].synthOk
        /\ calls[p[1]].rate # calls[p[2]].rate
        /\ calls[p[2]].lookup = "hit"
        /\ calls[p[2]].handed = calls[p[1]].data
        /\ calls[p[2]].handed.kind = "wav"

\* C2: speak() never fails towards its caller. Whatever fails (the cache
\* read, the cache write, rendering, the export, the start of playback, the
\* native engine, which may throw when asked to speak), the promise speak()
\* returned is never rejected.
C2_NeverRejects ==
    \A i \in CallIds : calls[i].pc # "rejected"

\* Invocation i missed the cache and its synthesis failed: no audio
\* context, a rendering or an export that threw.
SynthesisFailed(i) ==
    /\ Finished(calls[i])
    /\ calls[i].lookup = "miss"
    /\ calls[i].synth > 0
    /\ ~calls[i].synthOk

\* C3: when synthesis fails in a call that missed the cache, the call goes
\* to the browser fallback: the native engine (here present and working) is
\* handed the cleaned text, not the apology, and the call starts no
\* playback on the audio element.
C3_SynthesisFailureFallsBack ==
    \A i \in CallIds :
        (SynthesisFailed(i) /\ native.present /\ ~native.throws)
        => /\ calls[i].text \in calls[i].uttered
           /\ ApologyText \notin calls[i].uttered
           /\ ~calls[i].played

\* C4: at most one utterance is audible at a time. The audio element is
\* never playing while the native engine speaks an utterance of the hook.
C4_OneAudible ==
    ~(audio.playing /\ native.started)

\* C5: last call wins. What a call obtains after another speak() was called
\* while it awaited its cache lookup or its synthesis is discarded: it is
\* handed neither to the audio element nor to the native engine; and once
\* all calls have finished, the audio element's source is the last call's.
C5_LastCallWins ==
    /\ \A i \in CallIds :
          calls[i].superseded =>
              calls[i].handed = NoAudio /\ calls[i].uttered = {}
    /\ \A i \in CallIds :
          (/\ \A j \in CallIds : Finished(calls[j])
           /\ \E j \in CallIds : calls[j].superseded
           /\ ~calls[i].superseded
           /\ calls[i].handed # NoAudio)
          => audio.src = calls[i].handed

\* C6: the state stop() leaves. Called in any state, stop() returns with
\* the audio element paused at position 0, with no utterance of the hook
\* speaking or queued in the native engine, and with isSpeaking false.
C6_StopPostState ==
    [][StopCall =>
          /\ audio'.paused
          /\ audio'.pos = 0
          /\ native'.queue = <<>>
          /\ ~native'.started
          /\ ~hook'.isSpeaking]_vars

\* The step is a speak(r[2]) under the options r[1], and the text is empty
\* once cleaned. (Only speak() takes an invocation into use: the first two
\* conjuncts spare the evaluation of the others on every other step.)
EmptySpeak(r) ==
    /\ NextCall # 0
    /\ calls'[NextCall].pc # "none"
    /\ CleanText(r[2]) = <<>>
    /\ Speak(r[1], r[2])

\* What every speak() of a text that is empty once cleaned does, as
\* invocation i: no cache read, no cache write, no synthesis, no utterance,
\* and isLoading and error stay as they are.
EmptySpeakIsQuiet(i) ==
    /\ db' = db
    /\ hook'.isLoading = hook.isLoading
    /\ hook'.error = hook.error
    /\ calls'[i].lookup = "none"
    /\ calls'[i].readAt = -1
    /\ calls'[i].synth = 0
    /\ ~calls'[i].wrote
    /\ calls'[i].uttered = {}
    /\ calls'[i].handed = NoAudio
    /\ \A j \in CallIds \ {i} : calls'[j] = calls[j]
    /\ Len(native'.queue) <= Len(native.queue)
    /\ audio'.src = audio.src

\* C7, as stated: speak(text) with a text that is empty once cleaned is a
\* no-op in every state: no cache read or write, no synthesis, no
\* utterance, and isLoading, error, isSpeaking and the playback in progress
\* are left as they are.
C7_AsStated ==
    [][\A r \in Requests :
          EmptySpeak(r)
          => /\ EmptySpeakIsQuiet(NextCall)
             /\ hook' = hook
             /\ audio' = audio
             /\ native' = native]_vars

\* C7, amended: speak(text) with a text that is empty once cleaned does no
\* cache read or write, no synthesis and no utterance, and leaves isLoading
\* and error as they are, in every state. With TTS enabled and the audio
\* subsystem available it has stopped before it looks at the text: the
\* audio element is paused at position 0, a native utterance being spoken
\* is cancelled with those queued behind it, and isSpeaking is false.
\* Otherwise it changes nothing.
C7_EmptyText ==
    [][\A r \in Requests :
          EmptySpeak(r)
          => /\ EmptySpeakIsQuiet(NextCall)
             /\ IF r[1].enabled /\ available
                THEN /\ audio'.paused
                     /\ audio'.pos = 0
                     /\ ~audio'.playing
                     /\ ~hook'.isSpeaking
                     /\ native.started => native'.queue = <<>>
                     /\ ~native.started => native' = native
                ELSE /\ hook' = hook
                     /\ audio' = audio
                     /\ native' = native]_vars

\* A speak() of a text that is empty once cleaned has paused the audio
\* another call had started: the pause event is still to be dispatched.
C7_Witness ==
    \E i \in CallIds :
        /\ calls[i].pc = "resolved"
        /\ calls[i].text = <<>>
        /\ calls[i].enabled
        /\ available
        /\ calls[i].after # {}
        /\ audio.src.kind = "wav"
        /\ audio.paused
        /\ audio.pos = 0
        /\ audio.events # <<>>
        /\ audio.events[Len(audio.events)].type = "pause"

\* The invocations whose cache request has ended.
LookedUp == {i \in CallIds : calls[i].readAt >= 0}

\* C8, as stated: cache expiry. getFromCache returns the stored bytes
\* exactly when a record exists under the key, the read succeeds and the
\* record's age does not exceed 14 days, and absent otherwise: a record of
\* exactly 14 days is still returned.
C8_AsStated ==
    \A i \in LookedUp :
        (calls[i].lookup = "hit")
        <=> /\ calls[i].found # <<>>
            /\ ~calls[i].readFailed
            /\ calls[i].readAt - calls[i].found[1].timestamp
                  <= 14 * 24 * 60 * 60 * 1000

\* C8, amended: getFromCache returns the stored bytes exactly when a
\* record exists under the key, the read succeeds and the record's age is
\* less than 14 days, and absent otherwise: a record of exactly 14 days is
\* absent.
C8_CacheExpiry ==
    \A i \in LookedUp :
        /\ calls[i].lookup \in {"hit", "miss"}
        /\ (calls[i].lookup = "hit")
           <=> /\ calls[i].found # <<>>
               /\ ~calls[i].readFailed
               /\ calls[i].readAt - calls[i].found[1].timestamp
                     < 14 * 24 * 60 * 60 * 1000
        /\ calls[i].lookup = "hit"
           => calls[i].data = calls[i].found[1].audioData

\* A request read, without failing, a record of exactly 14 days, and
\* getFromCache returned absent.
C8_Witness ==
    \E i \in LookedUp :
        /\ calls[i].found # <<>>
        /\ ~calls[i].readFailed
        /\ calls[i].readAt - calls[i].found[1].timestamp = 14 * 24 * 60 * 60 * 1000
        /\ calls[i].lookup = "miss"

\* C11: a cache entry is created only by a successful synthesis. The audio
\* of every record in the audioCache store is the WAV export of a rendered
\* buffer for the record's text and voice: never the fallback beep, never
\* the 44-byte empty buffer.
C11_CacheOnlySynthesized ==
    \A k \in DOMAIN db.audioCache :
        LET r == db.audioCache[k]
        IN  /\ r.audioData.kind = "wav"
            /\ r.audioData.voice = r.voice
            /\ Len(r.audioData.text) = r.textLength
            /\ k = GenerateCacheKey(r.audioData.text, r.voice)

\* C12: with the audio subsystem unavailable and TTS enabled, speak(text)
\* of a text that is not empty once cleaned goes to the browser fallback:
\* the native engine, if present (and working), is handed the cleaned text,
\* and if it is absent a non-null error is reported.
C12_UnavailableFallsBack ==
    \A i \in CallIds :
        (/\ Finished(calls[i])
         /\ ~available
         /\ calls[i].enabled
         /\ calls[i].text # <<>>)
        => /\ (native.present /\ ~native.throws)
                  => calls[i].text \in calls[i].uttered
           /\ ~native.present => hook.error # NoError

\* The step is one in which invocation i assigns the audio element's src.
SrcSetBy(i) == calls[i].handed = NoAudio /\ calls'[i].handed # NoAudio

\* The step is one in which invocation i has play() refused: the element is
\* still paused after its play().
PlayRefused(i) == SrcSetBy(i) /\ audio'.paused

\* The step is one in which building the blob or its URL throws for i.
BlobThrewIn(i) == ~calls[i].blobThrew /\ calls'[i].blobThrew

\* How many play() promises the step rejects: the pending ones a new src
\* aborts, with the one refused to the call that set it; those of a source
\* that does not load; those a pause task carries.
PlayRejections ==
    IF \E i \in CallIds : SrcSetBy(i)
    THEN audio.pending + SumRejects(audio.events)
         + (IF audio'.paused THEN 1 ELSE 0)
    ELSE IF AudioLoadError THEN audio.pending
    ELSE IF DispatchEvent THEN Head(audio.events).rejects
    ELSE 0

\* How many starts of playback fail in the step.
PlaybackStartFailures ==
    PlayRejections + Cardinality({i \in CallIds : BlobThrewIn(i)})

CalledAfterFallback(j) ==
    /\ ~native.present
    /\ available
    /\ \E i \in calls[j].after : calls[i].blobThrew
    /\ Finished(calls[j])
    /\ calls[j].enabled
    /\ calls[j].text # <<>>
    /\ ~calls[j].readFailed
    /\ ~calls[j].blobThrew
    /\ calls[j].lookup = "miss" => calls[j].synthOk

\* What an invocation does from a fresh idle state: the cache check, on a
\* miss one synthesis of its text, and playback of what it obtained.
WorksAsFresh(j) ==
    /\ calls[j].lookup \in {"hit", "miss"}
    /\ calls[j].lookup = "hit" =>
          /\ calls[j].synth = 0
          /\ calls[j].data = calls[j].found[1].audioData
    /\ calls[j].lookup = "miss" =>
          /\ calls[j].synth = 1
          /\ calls[j].data =
                WavOf(calls[j].text, calls[j].voice, calls[j].rate, SampleRate)
    /\ calls[j].played
    /\ calls[j].handed = calls[j].data

\* C14: when the browser fallback is reached and no native engine is
\* present, the hook sets a non-null error, leaves isSpeaking false and
\* issues no utterance; and it stays usable: a later speak() clears the
\* error and sets isLoading, and with nothing failing for it goes through
\* cache check, synthesis and playback as from a fresh idle state.
C14_NoEngineFallback ==
    [][/\ (~native.present /\ PlaybackStartFailures > 0) =>
             /\ hook'.error # NoError
             /\ ~hook'.isSpeaking
             /\ native'.queue = <<>>
             /\ \A j \in CallIds : calls'[j].uttered = {}
       /\ \A j \in CallIds :
             (/\ ~native.present
              /\ calls[j].pc = "none"
              /\ InFlight(calls'[j])
              /\ \E i \in CallIds : calls[i].blobThrew)
             => hook'.error = NoError /\ hook'.isLoading
       /\ \A j \in CallIds : CalledAfterFallback(j)' => WorksAsFresh(j)']_vars

\* Invocation i has finished a speak() of a text not empty once cleaned
\* (TTS enabled, the audio subsystem available) in which nothing but the
\* cache failed: the database did not open (or was not open yet), its read
\* erred, or its write did not happen.
OnlyCacheFailed(i) ==
    /\ available
    /\ Finished(calls[i])
    /\ calls[i].enabled
    /\ calls[i].text # <<>>
    /\ \/ db.state = "failed"
       \/ calls[i].readFailed
       \/ calls[i].lookup = "miss" /\ ~calls[i].wrote
    /\ calls[i].lookup = "miss" => calls[i].synthOk
    /\ ~calls[i].blobThrew

\* The step is one in which the cache fails and nothing else does: the
\* database fails to open, a cache read errs, or the cache write of an
\* invocation that ends its synthesis does not commit.
CacheFailureStep ==
    /\ upsets' = upsets + 1
    /\ PlaybackStartFailures = 0
    /\ \/ db.state = "opening" /\ db'.state = "failed"
       \/ \E i \in CallIds : ~calls[i].readFailed /\ calls'[i].readFailed
       \/ \E i \in CallIds :
             /\ calls[i].pc = "render"
             /\ Finished(calls'[i])
             /\ calls'[i].synthOk
             /\ db.state = "open"
             /\ ~calls'[i].wrote

\* C15: cache failures never abort speech. If the cache database failed to
\* open, or a cache read errs, or the cache write fails, a speak() of a
\* text not empty once cleaned still synthesizes the audio (once) and
\* hands it to the audio element for playback; and the cache failure does
\* not set the error state.
C15_CacheFailuresHarmless ==
    [][/\ \A i \in CallIds :
             OnlyCacheFailed(i)' =>
                 /\ calls'[i].readFailed => calls'[i].lookup = "miss"
                 /\ calls'[i].lookup = "miss" =>
                       /\ calls'[i].synth = 1
                       /\ calls'[i].data =
                             WavOf(calls'[i].text, calls'[i].voice,
                                   calls'[i].rate, SampleRate)
                 /\ calls'[i].played
                 /\ calls'[i].handed = calls'[i].data
                 /\ calls'[i].uttered = {}
                 /\ calls'[i].pc = "resolved"
       /\ db'.state = "failed" =>
             /\ db'.audioCache = << >>
             /\ db'.ttsStats = << >>
             /\ \A i \in CallIds : calls'[i].lookup # "hit" /\ ~calls'[i].wrote
       /\ CacheFailureStep => hook'.error = hook.error]_vars

\* A call whose cache read erred has synthesized its text and handed the
\* audio to the element, with no error set.
C15_Witness ==
    \E i \in CallIds :
        /\ OnlyCacheFailed(i)
        /\ calls[i].readFailed
        /\ calls[i].found # <<>>
        /\ calls[i].synth = 1
        /\ calls[i].handed.kind = "wav"
        /\ audio.src = calls[i].handed
        /\ hook.error = NoError

\* C19: isLoading tracks the work in flight. In every state, overlapping
\* speak() calls included, isLoading is true if and only if at least one
\* invocation is between the start of its cache check and the end of its
\* synthesis and cache write.
C19_IsLoadingTracksInFlight ==
    hook.isLoading <=> \E i \in CallIds : InFlight(calls[i])

\* The stages invocation i has behind it, in the order of speak(): the
\* cache lookup resolved, the synthesis resolved, the cache write and the
\* playback. (The write and the start of playback follow the synthesis in
\* one task.)
LookupResolved(i)    == calls[i].lookup # "none"
SynthesisBegun(i)    == calls[i].synth > 0
SynthesisResolved(i) == calls[i].lookup = "miss" /\ calls[i].data # NoAudio
PlaybackStarted(i)   == calls[i].handed # NoAudio \/ calls[i].played

\* C20: stage order within one speak() invocation. The cache lookup
\* resolves before synthesis begins, synthesis resolves before the cache
\* write is issued, and the cache write is issued before playback is
\* started; on a cache hit neither synthesis nor a cache write nor a
\* usage-stat append happens and the cached bytes go straight to playback.
C20_StageOrder ==
    [][\A i \in CallIds :
         /\ SynthesisBegun(i)' =>
               LookupResolved(i)' /\ calls'[i].lookup = "miss" /\ calls'[i].synth = 1
         /\ (SynthesisBegun(i)' /\ ~SynthesisBegun(i)) =>
               /\ ~calls[i].wrote
               /\ ~PlaybackStarted(i)
         /\ calls'[i].pc \in {"cache", "render"} =>
               /\ ~calls'[i].wrote
               /\ ~PlaybackStarted(i)'
               /\ calls'[i].data = NoAudio
         /\ calls'[i].pc = "cache" => ~LookupResolved(i)' /\ ~SynthesisBegun(i)'
         /\ calls'[i].wrote =>
               /\ SynthesisResolved(i)'
               /\ calls[i].wrote \/ ~PlaybackStarted(i)
         /\ (calls'[i].wrote /\ ~calls[i].wrote) =>
               /\ GenerateCacheKey(calls[i].text, calls[i].voice)
                     \in DOMAIN db'.audioCache
               /\ db'.audioCache[GenerateCacheKey(calls[i].text, calls[i].voice)]
                     .audioData = calls'[i].data
               /\ Len(db'.ttsStats) = Len(db.ttsStats) + 1
         /\ PlaybackStarted(i)' =>
               /\ calls'[i].handed \in {NoAudio, calls'[i].data}
               /\ calls'[i].lookup = "hit" \/ SynthesisResolved(i)'
         /\ (PlaybackStarted(i)' /\ ~PlaybackStarted(i)
               /\ calls'[i].lookup = "miss" /\ db.state = "open") =>
               calls'[i].wrote \/ upsets' > upsets
         /\ calls'[i].lookup = "hit" =>
               /\ calls'[i].synth = 0
               /\ ~calls'[i].wrote
               /\ calls'[i].data = calls'[i].found[1].audioData
               /\ calls[i].lookup = "none" =>
                     /\ db' = db
                     /\ Finished(calls'[i])
                     /\ calls'[i].blobThrew \/
                           (calls'[i].played /\ calls'[i].handed = calls'[i].data
                              /\ audio'.src = calls'[i].data)]_vars

\* A call that missed has synthesized, stored and handed over its audio,
\* and a later call of the same text was handed the stored bytes on a hit.
C20_Witness ==
    \E i \in CallIds, j \in CallIds :
        /\ i \in calls[j].after
        /\ calls[i].lookup = "miss"
        /\ calls[i].readAt >= 0
        /\ calls[i].synth = 1
        /\ calls[i].synthOk
        /\ calls[i].wrote
        /\ calls[i].played
        /\ calls[j].lookup = "hit"
        /\ calls[j].synth = 0
        /\ calls[j].played
        /\ calls[j].handed = calls[i].data
        /\ Len(db.ttsStats) = 1

\* The invocations whose cache put is committed in the step.
PutsInStep == {i \in CallIds : ~calls[i].wrote /\ calls'[i].wrote}

\* C25: usage statistics are append-only and tied to cache writes. Over any
\* sequence of speak() and stop() calls the ttsStats records never get fewer
\* and none is changed; each cache put of saveToCache comes with exactly one
\* new record, with generated = true and the cleaned text's length and
\* voice; cache hits, empty-text calls and calls made while the cache
\* database is absent append nothing.
C25_StatsAppendOnly ==
    [][LET old == Len(db.ttsStats)
           new == Len(db'.ttsStats)
       IN  /\ new >= old
           /\ SubSeq(db'.ttsStats, 1, old) = db.ttsStats
           /\ new - old = Cardinality(PutsInStep)
           /\ \A i \in PutsInStep :
                 /\ new = old + 1
                 /\ db'.ttsStats[new].generated = TRUE
                 /\ db'.ttsStats[new].textLength = Len(calls'[i].text)
                 /\ db'.ttsStats[new].voice = calls'[i].voice
                 /\ GenerateCacheKey(calls'[i].text, calls'[i].voice)
                       \in DOMAIN db'.audioCache
                 /\ calls'[i].lookup = "miss"
                 /\ calls'[i].text # <<>>
                 /\ db.state = "open"
           /\ db.audioCache # db'.audioCache => PutsInStep # {}]_vars

\* Two calls that missed the cache have each appended a record, the second
\* after the first.
C25_Witness ==
    /\ Len(db.ttsStats) = 2
    /\ \A i \in CallIds : calls[i].wrote /\ calls[i].lookup = "miss"
    /\ db.ttsStats[1].date <= db.ttsStats[2].date

\* The cache key of invocation i, the same from its call on.
KeyOf(i) == GenerateCacheKey(calls[i].text, calls[i].voice)

\* The cache request of invocation i ends in the step.
LookupEnds(i) == calls[i].pc = "cache" /\ calls'[i].pc # "cache"

\* C26: expired entries are overwritten, not deleted. getFromCache never
\* deletes or modifies a record of the audioCache store, also when the
\* record is expired; a speak() that finds an expired record takes the miss
\* path, and its put replaces the record under the same key with a fresh
\* timestamp; in every reachable state, also after overlapping speak() calls
\* for the same text and voice, the store holds at most one record per key.
C26_ExpiredOverwritten ==
    /\ [][/\ DOMAIN db.audioCache \subseteq DOMAIN db'.audioCache
          /\ \A k \in DOMAIN db.audioCache :
                db'.audioCache[k] # db.audioCache[k]
                    => \E i \in PutsInStep : k = KeyOf(i)
          /\ \A i \in CallIds :
                LookupEnds(i) =>
                    /\ PutsInStep = {} => db'.audioCache = db.audioCache
                    /\ (/\ calls[i].found # <<>>
                        /\ ~IsFresh(calls[i].found[1], now))
                       => /\ calls'[i].lookup = "miss"
                          /\ \A k \in DOMAIN db.audioCache \ {KeyOf(i)} :
                                db'.audioCache[k] = db.audioCache[k]
          /\ \A i \in PutsInStep :
                /\ db'.audioCache[KeyOf(i)].timestamp = now
                /\ db'.audioCache[KeyOf(i)].audioData = calls'[i].data
                /\ DOMAIN db'.audioCache = DOMAIN db.audioCache \cup {KeyOf(i)}]_vars
    /\ [](Cardinality(DOMAIN db.audioCache)
             <= Cardinality({KeyOf(i) : i \in {j \in CallIds : calls[j].wrote}}))

\* A call found a record that had expired, missed, and its put has replaced
\* the record, the only one of the store, by one of now.
C26_Witness ==
    \E i \in CallIds :
        /\ calls[i].found # <<>>
        /\ ~IsFresh(calls[i].found[1], calls[i].readAt)
        /\ calls[i].lookup = "miss"
        /\ calls[i].wrote
        /\ DOMAIN db.audioCache = {KeyOf(i)}
        /\ db.audioCache[KeyOf(i)].timestamp = now
        /\ db.audioCache[KeyOf(i)].timestamp > calls[i].found[1].timestamp

\* The pairs <<i, j>>: invocation i, and no other, had stored its audio when
\* speak() was called again, as invocation j and for the last time, with the
\* same text and voice at another rate (TTS enabled, the audio subsystem
\* available), and j finished.
RepeatedAtAnotherRate ==
    {p \in CallIds \X CallIds :
        /\ p[1] \in calls[p[2]].after
        /\ \A k \in calls[p[2]].after : calls[k].wrote => k = p[1]
        /\ \A k \in CallIds : k > p[2] => calls[k].pc = "none"
        /\ calls[p[1]].wrote
        /\ calls[p[1]].synthOk
        /\ available
        /\ calls[p[2]].enabled
        /\ calls[p[2]].text = calls[p[1]].text
        /\ calls[p[2]].voice = calls[p[1]].voice
        /\ calls[p[2]].rate # calls[p[1]].rate
        /\ Finished(calls[p[2]])}

\* C28, as stated: the cache key does not depend on the speaking rate. After
\* speak(text) has populated the cache at rate r1, a speak(text) with the
\* same voice and another rate r2 is a cache hit that plays the bytes
\* synthesized for r1 without any synthesis; r2 only reaches the audio
\* element's playbackRate.
C28_AsStated ==
    \A p \in RepeatedAtAnotherRate :
        /\ calls[p[2]].lookup = "hit"
        /\ calls[p[2]].synth = 0
        /\ calls[p[2]].handed =
              WavOf(calls[p[1]].text, calls[p[1]].voice, calls[p[1]].rate, SampleRate)
        /\ audio.playbackRate = calls[p[2]].rate

\* C28, amended: the second call's request reads the record stored at r1
\* whatever r2 is; if the read does not fail and the record is younger than
\* 14 days, the call is a cache hit that synthesizes nothing and obtains the
\* bytes synthesized for r1, of a length computed from r1; unless building
\* the blob or its URL throws, it hands them to the audio element, whose
\* playbackRate is r2.
C28_RateNotInKey ==
    \A p \in RepeatedAtAnotherRate :
        LET first  == calls[p[1]]
            second == calls[p[2]]
            stored == WavOf(first.text, first.voice, first.rate, SampleRate)
        IN  /\ second.found # <<>>
            /\ second.found[1].audioData = stored
            /\ (~second.readFailed /\ ReadFresh(p[2]))
               => /\ second.lookup = "hit"
                  /\ second.synth = 0
                  /\ ~second.wrote
                  /\ second.data = stored
                  /\ second.data.bytes =
                        WavByteLength(
                            SafeFrameCount(Len(first.text), first.rate, SampleRate), 1)
                  /\ ~second.blobThrew
                     => /\ second.handed = stored
                        /\ audio.src = stored
                        /\ audio.playbackRate = second.rate

\* A call at rate 2.0 was served the audio synthesized at rate 1.0 (or the
\* other way round), which is not the audio of its own rate, and the element
\* plays it at the call's rate.
C28_Witness ==
    \E p \in RepeatedAtAnotherRate :
        /\ calls[p[2]].lookup = "hit"
        /\ calls[p[2]].handed =
              WavOf(calls[p[1]].text, calls[p[1]].voice, calls[p[1]].rate, SampleRate)
        /\ calls[p[2]].handed #
              WavOf(calls[p[2]].text, calls[p[2]].voice, calls[p[2]].rate, SampleRate)
        /\ audio.src = calls[p[2]].handed
        /\ audio.playbackRate = calls[p[2]].rate
        /\ audio.playing

\* C30: isSpeaking reflects audibility. In every reachable state isSpeaking
\* is true whenever the audio element is playing or the native speech engine
\* is speaking an utterance issued by this hook, the apology utterance issued
\* after a playback-start failure included, and it is false when neither is
\* the case.
C30_IsSpeakingIsAudible ==
    hook.isSpeaking <=> (audio.playing \/ native.started)

(***************************************************************************)
(* One call with nothing failing                                           *)
(***************************************************************************)

\* The hook after construction on a host where the audio subsystem is
\* available and the environment has no upset left to make.
InitScenario ==
    /\ available = TRUE
    /\ hook = [isSpeaking |-> FALSE, isLoading |-> FALSE, error |-> NoError]
    /\ audio = AudioInit
    /\ native \in {NativeInit(TRUE, FALSE), NativeInit(TRUE, TRUE),
                  NativeInit(FALSE, FALSE)}
    /\ db = [state |-> "opening", audioCache |-> << >>, ttsStats |-> << >>]
    /\ calls = [i \in CallIds |-> NoCall]
    /\ now = 0
    /\ upsets = MaxUpsets
    /\ calc = NoCalc

\* The one call of speak() of the scenario.
SpeakOnce(options, raw) ==
    /\ \A i \in CallIds : calls[i].pc = "none"
    /\ Speak(options, raw)

NextScenario ==
    \/ OpenCache
    \/ \E r \in Requests : SpeakOnce(r[1], r[2])
    \/ \E i \in CallIds : CacheReadDone(i)
    \/ \E i \in CallIds : RenderDone(i)
    \/ DispatchEvent
    \/ AudioLoaded
    \/ AudioEnded

\* What is awaited comes: the cache request and the rendering end, the
\* element's events are dispatched, its source loads and plays to its end.
\* CacheReadDone(i) is enabled exactly while invocation i is at "cache" and
\* every step of it leaves "cache", so that its weak fairness,
\* []<>~ENABLED <<CacheReadDone(i)>>_vars \/ []<><<CacheReadDone(i)>>_vars,
\* is []<>(calls[i].pc # "cache"); likewise for RenderDone(i).
SpecScenario ==
    /\ InitScenario
    /\ [][NextScenario]_vars
    /\ \A i \in CallIds : []<>(calls[i].pc # "cache")
    /\ \A i \in CallIds : []<>(calls[i].pc # "render")
    /\ WF_vars(DispatchEvent)
    /\ WF_vars(AudioLoaded)
    /\ WF_vars(AudioEnded)

\* The call asked the open, empty cache for its text.
AsksEmptyCache(i) == calls[i].pc = "cache" /\ calls[i].found = <<>>

\* The audio of call i is the element's source and has played to its end.
PlayedToEnd(i) ==
    /\ calls[i].played
    /\ audio.src = calls[i].handed
    /\ audio.load = "ready"
    /\ audio.paused
    /\ audio.pos = 1

\* C18: scenario A in general. A speak() of a text not empty once cleaned,
\* with an empty cache, TTS enabled, audio available and no failing stage,
\* performs exactly one synthesis, one cache put and one usage-stat append,
\* then starts playback; isSpeaking is false until playback is started,
\* becomes true when it starts, and eventually becomes false again after
\* playback ends.
C18_ScenarioA ==
    /\ [](\A i \in CallIds :
            (Finished(calls[i]) /\ calls[i].readAt >= 0) =>
                /\ calls[i].lookup = "miss"
                /\ calls[i].synth = 1
                /\ calls[i].synthOk
                /\ calls[i].wrote
                /\ DOMAIN db.audioCache =
                      {GenerateCacheKey(calls[i].text, calls[i].voice)}
                /\ Len(db.ttsStats) = 1
                /\ calls[i].played
                /\ calls[i].handed =
                      WavOf(calls[i].text, calls[i].voice, calls[i].rate, SampleRate)
                /\ audio.src = calls[i].handed
                /\ hook.error = NoError)
    /\ [](\A i \in CallIds :
            InFlight(calls[i]) =>
                ~hook.isSpeaking /\ db.audioCache = << >> /\ db.ttsStats = << >>)
    /\ \A i \in CallIds :
          AsksEmptyCache(i) ~> (hook.isSpeaking /\ audio.playing)
    /\ \A i \in CallIds :
          AsksEmptyCache(i) ~> [](PlayedToEnd(i) /\ ~hook.isSpeaking)

\* The call missed the empty cache, synthesized, stored and played its
\* audio to the end, and isSpeaking is false again.
C18_Witness ==
    \E i \in CallIds :
        /\ calls[i].readAt >= 0
        /\ calls[i].lookup = "miss"
        /\ calls[i].wrote
        /\ Len(db.ttsStats) = 1
        /\ PlayedToEnd(i)
        /\ ~hook.isSpeaking
        /\ ~hook.isLoading

(***************************************************************************)
(* stop() called while a call of speak() is awaiting                       *)
(***************************************************************************)

\* The caller's stop() while an invocation awaits its cache request or its
\* rendering; calc keeps that it was called.
StopCalled == [fn |-> "stop"]
StopAwaited ==
    /\ \E i \in CallIds : InFlight(calls[i])
    /\ Commit(Stop(World), NoFault)
    /\ calc' = StopCalled
    /\ UNCHANGED <<available, now>>

\* The hook on a host where nothing fails: speak() is called no more once
\* stop() was called.
NextStopped ==
    \/ OpenCache
    \/ calc = NoCalc /\ \E r \in Requests : Speak(r[1], r[2])
    \/ StopAwaited
    \/ \E i \in CallIds : CacheReadDone(i)
    \/ \E i \in CallIds : RenderDone(i)
    \/ DispatchEvent
    \/ AudioLoaded
    \/ AudioEnded
    \/ NativeStart
    \/ NativeEnd

SpecStopped == InitScenario /\ [][NextStopped]_vars

\* C29: stop() is final until the next speak(). If stop() is called while a
\* speak() invocation is still awaiting its cache lookup or its synthesis,
\* and no speak() is called afterwards, then no playback and no native
\* utterance starts afterwards and isSpeaking stays false in every later
\* state.
C29_StopIsFinal ==
    /\ [](calc = StopCalled => ~hook.isSpeaking /\ ~audio.playing)
    /\ [][calc = StopCalled =>
             /\ audio.paused => audio'.paused
             /\ Len(native'.queue) <= Len(native.queue)
             /\ ~native.started => ~native'.started]_vars
(***************************************************************************)
(* The hook with its awaits coming to an end                               *)
(***************************************************************************)

\* Every cache request and every rendering eventually resolves or fails.
\* CacheReadDone(i) is enabled exactly while invocation i is at "cache" and
\* every step of it leaves "cache", so that its weak fairness is
\* []<>(calls[i].pc # "cache"); likewise for RenderDone(i).
SpecFair ==
    /\ Init
    /\ [][Next]_vars
    /\ \A i \in CallIds : []<>(calls[i].pc # "cache")
    /\ \A i \in CallIds : []<>(calls[i].pc # "render")

\* C21: every failure path ends in a safe idle state. With every cache
\* request and every rendering eventually resolving or failing, every
\* speak() invocation that set isLoading eventually finishes, and finishes
\* with isLoading false, whatever fails: cache, rendering, export, playback,
\* native engine; and when no speak() is in flight isLoading is false.
C21_EndsIdle ==
    /\ \A i \in CallIds : InFlight(calls[i]) ~> Finished(calls[i])
    /\ []((\A i \in CallIds : ~InFlight(calls[i])) => ~hook.isLoading)
    /\ [][\A i \in CallIds :
            (/\ ~Finished(calls[i])
             /\ Finished(calls'[i])
             /\ calls'[i].lookup # "none") => ~hook'.isLoading]_vars

\* A call whose promise was rejected, the blob and the native engine both
\* throwing, has left isLoading false with nothing in flight.
C21_Witness ==
    /\ \E i \in CallIds :
          /\ calls[i].pc = "rejected"
          /\ calls[i].blobThrew
          /\ calls[i].lookup = "miss"
    /\ \A i \in CallIds : ~InFlight(calls[i])
    /\ ~hook.isLoading

(***************************************************************************)
(* synthesizeTextToAudio on its own                                        *)
(***************************************************************************)

\* The hook before any call, on a host that has everything.
HookIdle ==
    /\ available = TRUE
    /\ hook = [isSpeaking |-> FALSE, isLoading |-> FALSE, error |-> NoError]
    /\ audio = AudioInit
    /\ native = NativeInit(TRUE, FALSE)
    /\ db = [state |-> "opening", audioCache |-> << >>, ttsStats |-> << >>]
    /\ calls = [i \in CallIds |-> NoCall]
    /\ now = 0
    /\ upsets = 0

\* The text lengths, rates (in tenths) and sample rates it is called with:
\* a text of more than 12.5 * rate characters lasts more than 10 seconds.
SynthLens        == {0, 1, 2, 5, 62, 63, 125, 126, 250, 251, 300}
SynthRates       == {5, 10, 20}
SynthSampleRates == {8000, 11025}

TextOfLen(n) == [i \in 1..n |-> "a"]

InitSynth ==
    /\ HookIdle
    /\ calc \in [fn : {"synthesizeTextToAudio"}, len : SynthLens,
                  rate : SynthRates, sr : SynthSampleRates, done : {FALSE},
                  started : {FALSE}, frames : {0}, out : {NoAudio}]

\* synthesizeTextToAudio(text, voice, rate) resolves. started: the offline
\* context was created and asked to render; frames: its length.
SynthReturns ==
    /\ calc.fn = "synthesizeTextToAudio"
    /\ ~calc.done
    /\ \E ctxOk \in BOOLEAN, renderOk \in BOOLEAN, exportOk \in BOOLEAN :
          LET started == ~SetupThrows(calc.len, calc.rate, calc.sr, ctxOk)
          IN  calc' = [calc EXCEPT
                         !.done = TRUE,
                         !.started = started,
                         !.frames = IF started
                                    THEN SafeFrameCount(calc.len, calc.rate, calc.sr)
                                    ELSE 0,
                         !.out = SynthesizeTextToAudio(
                                     TextOfLen(calc.len), "alloy", calc.rate,
                                     calc.sr, ctxOk, renderOk, exportOk)]
    /\ UNCHANGED hookVars

NextSynth == SynthReturns

SpecSynth == InitSynth /\ [][NextSynth]_vars

\* C9: duration clamp. With duration = (len / 5 / 150) * 60 / rate, the
\* frames synthesizeTextToAudio renders number min(ceil(duration *
\* sampleRate), 10 * sampleRate): never more than 10 * sampleRate; and
\* whatever it returns holds at most 44 + 2 * 10 * sampleRate bytes.
\* (n = ceil(x) says n - 1 < x <= n; x is the fraction num / den.)
C9_DurationClamp ==
    (calc.fn = "synthesizeTextToAudio" /\ calc.done) =>
        LET cap == 10 * calc.sr
            num == calc.len * 60 * 10 * calc.sr
            den == 5 * 150 * calc.rate
            n   == calc.frames
        IN  /\ calc.started =>
                  /\ n <= cap
                  /\ IF num > (cap - 1) * den
                     THEN n = cap
                     ELSE (n - 1) * den < num /\ num <= n * den
            /\ calc.out.bytes <= 44 + 2 * 10 * calc.sr

\* A text that lasts more than 10 seconds was rendered and exported: the cap
\* applied.
C9_Witness ==
    /\ calc.fn = "synthesizeTextToAudio"
    /\ calc.done
    /\ calc.started
    /\ calc.len * 60 * 10 > 10 * 5 * 150 * calc.rate
    /\ calc.frames = 10 * calc.sr
    /\ calc.out.kind = "wav"
    /\ calc.out.bytes = 44 + 2 * 10 * calc.sr

\* C23: amplitude envelope. For every non-empty text and every rate in
\* [0.5, 2.0] the gain events have the times 0 <= 0.02 <= D - 0.05 <= D
\* (D the computed duration), scheduling them never throws, and the ramp down
\* ends within the rendered buffer: D <= rendered frames / sampleRate, also
\* when the frame count was clamped to 10 seconds.
C23_EnvelopeAsStated ==
    (calc.fn = "synthesizeTextToAudio" /\ calc.done /\ calc.len > 0) =>
        LET num    == DurationNum(calc.len, calc.rate)
            den    == DurationDen(calc.rate)
            frames == SafeFrameCount(calc.len, calc.rate, calc.sr)
        IN  /\ 7 * den <= 100 * num
            /\ ~EnvelopeThrows(calc.len, calc.rate)
            /\ num * calc.sr <= frames * den

(***************************************************************************)
(* getVoiceCharacteristics on its own                                      *)
(***************************************************************************)

\* A voice id is a sequence of characters. The letters, in both cases.
LowerLetters ==
    <<"a", "b", "c", "d", "e", "f", "g", "h", "i", "j", "k", "l", "m",
      "n", "o", "p", "q", "r", "s", "t", "u", "v", "w", "x", "y", "z">>
UpperLetters ==
    <<"A", "B", "C", "D", "E", "F", "G", "H", "I", "J", "K", "L", "M",
      "N", "O", "P", "Q", "R", "S", "T", "U", "V", "W", "X", "Y", "Z">>

\* String.prototype.toLowerCase on one character, and its inverse on a
\* lower-case letter.
LowerOf(c) ==
    IF \E k \in 1..26 : UpperLetters[k] = c
    THEN LowerLetters[CHOOSE k \in 1..26 : UpperLetters[k] = c]
    ELSE c
UpperOf(c) ==
    IF \E k \in 1..26 : LowerLetters[k] = c
    THEN UpperLetters[CHOOSE k \in 1..26 : LowerLetters[k] = c]
    ELSE c

\* voiceId.toLowerCase()
ToLowerCase(str) == [k \in 1..Len(str) |-> LowerOf(str[k])]

\* The ids of HIGH_QUALITY_VOICES.
IdAlloy == <<"a", "l", "l", "o", "y">>
IdEcho == <<"e", "c", "h", "o">>
IdFable == <<"f", "a", "b", "l", "e">>
IdOnyx == <<"o", "n", "y", "x">>
IdNova == <<"n", "o", "v", "a">>
IdShimmer == <<"s", "h", "i", "m", "m", "e", "r">>
HighQualityVoices == {IdAlloy, IdEcho, IdFable, IdOnyx, IdNova, IdShimmer}

\* Gains, emphasis, breathiness and syllable rate are numbers of
\* hundredths: 100 is 1.0.
Formant(frequency, gain) == [frequency |-> frequency, gain |-> gain, type |-> "sine"]
Profile(baseFrequency, formants, emphasis, breathiness, syllableRate) ==
    [baseFrequency |-> baseFrequency, formants |-> formants,
     emphasis |-> emphasis, breathiness |-> breathiness,
     syllableRate |-> syllableRate]

DefaultCharacteristics ==
    Profile(160, <<Formant(500, 100), Formant(1500, 50), Formant(2500, 25)>>,
            120, 10, 400)

\* getVoiceCharacteristics comparing the id as it is written.
GetVoiceCharacteristicsCaseSensitive(voiceId) ==
    LET v == voiceId
    IN  CASE
             v = IdAlloy -> Profile(175, <<Formant(600, 100), Formant(1400, 60), Formant(2400, 40)>>, 110, 15, 420)
          [] v = IdEcho -> Profile(120, <<Formant(500, 100), Formant(1500, 40), Formant(2200, 20)>>, 140, 5, 380)
          [] v = IdFable -> Profile(140, <<Formant(550, 100), Formant(1600, 50), Formant(2300, 30)>>, 150, 10, 400)
          [] v = IdOnyx -> Profile(110, <<Formant(450, 100), Formant(1300, 40), Formant(2100, 15)>>, 160, 5, 350)
          [] v = IdNova -> Profile(200, <<Formant(650, 100), Formant(1700, 60), Formant(2500, 40)>>, 130, 20, 440)
          [] v = IdShimmer -> Profile(220, <<Formant(700, 100), Formant(1800, 70), Formant(2600, 50)>>, 120, 25, 430)
          [] OTHER -> DefaultCharacteristics

\* getVoiceCharacteristics(voiceId)
GetVoiceCharacteristics(voiceId) ==
    LET v == ToLowerCase(voiceId)
    IN  CASE
             v = IdAlloy -> Profile(175, <<Formant(600, 100), Formant(1400, 60), Formant(2400, 40)>>, 110, 15, 420)
          [] v = IdEcho -> Profile(120, <<Formant(500, 100), Formant(1500, 40), Formant(2200, 20)>>, 140, 5, 380)
          [] v = IdFable -> Profile(140, <<Formant(550, 100), Formant(1600, 50), Formant(2300, 30)>>, 150, 10, 400)
          [] v = IdOnyx -> Profile(110, <<Formant(450, 100), Formant(1300, 40), Formant(2100, 15)>>, 160, 5, 350)
          [] v = IdNova -> Profile(200, <<Formant(650, 100), Formant(1700, 60), Formant(2500, 40)>>, 130, 20, 440)
          [] v = IdShimmer -> Profile(220, <<Formant(700, 100), Formant(1800, 70), Formant(2600, 50)>>, 120, 25, 430)
          [] OTHER -> DefaultCharacteristics

\* The spellings of a lower-case word with any of its letters in upper case.
RECURSIVE CaseVariants(_)
CaseVariants(word) ==
    IF word = <<>> THEN {<<>>}
    ELSE {<<c>> \o rest : c \in {Head(word), UpperOf(Head(word))},
                          rest \in CaseVariants(Tail(word))}

\* The ids it is called with: the catalog ids in every spelling, and
\* strings that are no catalog id: the empty string, ids cut short,
\* lengthened, with a blank or a digit, other words.
OtherIds ==
    {<<>>, <<"a">>, <<"a", "l", "l", "o">>, <<"a", "l", "l", "o", "y", "s">>,
     <<" ", "e", "c", "h", "o">>, <<"e", "c", "h", "o", " ">>,
     <<"n", "o", "v", "a", "1">>, <<"N", "O", "V">>, <<"o", "n", "y">>,
     <<"d", "e", "f", "a", "u", "l", "t">>, <<"D", "E", "F", "A", "U", "L", "T">>,
     <<"f", "a", "b", "l", "e", "d">>, <<"s", "h", "i", "m", "m", "e", "r", "s">>,
     <<"0">>, <<"A", "l", "l", "o", "y", ".">>}
VoiceIdInputs ==
    UNION {CaseVariants(id) : id \in HighQualityVoices} \cup OtherIds

InitVoice ==
    /\ HookIdle
    /\ calc \in [fn : {"getVoiceCharacteristics"}, voiceId : VoiceIdInputs,
                  done : {FALSE}, out : {<<>>}]

\* getVoiceCharacteristics(voiceId) returns.
VoiceReturns ==
    /\ calc.fn = "getVoiceCharacteristics"
    /\ ~calc.done
    /\ calc' = [calc EXCEPT !.done = TRUE,
                            !.out = GetVoiceCharacteristics(calc.voiceId)]
    /\ UNCHANGED hookVars

NextVoice == VoiceReturns

SpecVoice == InitVoice /\ [][NextVoice]_vars

\* The string is the catalog id, compared without regard to case.
SameIgnoringCase(str, id) ==
    /\ Len(str) = Len(id)
    /\ \A k \in 1..Len(id) : str[k] = id[k] \/ str[k] = UpperOf(id[k])

\* The base frequency that tells a catalog voice's profile from the others.
OwnBaseFrequency(id) ==
    CASE id = IdAlloy -> 175 [] id = IdEcho -> 120 [] id = IdFable -> 140
      [] id = IdOnyx -> 110 [] id = IdNova -> 200 [] id = IdShimmer -> 220

\* C16: voice profile lookup is total. getVoiceCharacteristics returns, for
\* each of the six catalog ids compared case-insensitively, that voice's own
\* profile, and for every other string the default profile: base frequency
\* 160, formants 500/1500/2500 with gains 1.0/0.5/0.25, emphasis 1.2,
\* breathiness 0.1, syllable rate 4.0. It always returns a profile.
C16_VoiceLookupTotal ==
    (calc.fn = "getVoiceCharacteristics" /\ calc.done) =>
        /\ DOMAIN calc.out = {"baseFrequency", "formants", "emphasis",
                              "breathiness", "syllableRate"}
        /\ Len(calc.out.formants) = 3
        /\ \A id \in HighQualityVoices :
              SameIgnoringCase(calc.voiceId, id) =>
                  /\ calc.out = GetVoiceCharacteristics(id)
                  /\ calc.out.baseFrequency = OwnBaseFrequency(id)
                  /\ calc.out # DefaultCharacteristics
        /\ (~\E id \in HighQualityVoices : SameIgnoringCase(calc.voiceId, id)) =>
              /\ calc.out.baseFrequency = 160
              /\ calc.out.formants =
                    <<[frequency |-> 500,  gain |-> 100, type |-> "sine"],
                      [frequency |-> 1500, gain |-> 50,  type |-> "sine"],
                      [frequency |-> 2500, gain |-> 25,  type |-> "sine"]>>
              /\ calc.out.emphasis = 120
              /\ calc.out.breathiness = 10
              /\ calc.out.syllableRate = 400

\* The id of a catalog voice written in mixed case got that voice's
\* profile.
C16_Witness ==
    /\ calc.fn = "getVoiceCharacteristics"
    /\ calc.done
    /\ calc.voiceId = <<"S", "h", "I", "m", "M", "e", "R">>
    /\ calc.out.baseFrequency = 220
    /\ calc.out.formants[3] = [frequency |-> 2600, gain |-> 50, type |-> "sine"]

(***************************************************************************)
(* exportToWavArrayBuffer on its own                                       *)
(***************************************************************************)

\* A sample is a number of 1/SampleDen: SampleDen is the sample 1.0.
SampleDen == 1000

\* The channels and frames of the buffers exported.
MaxChannels == 2
MaxFrames   == 2

\* The samples the buffers hold, some of them outside [-1, 1].
Samples == <<0, 900, -1, 1000, -1500, 1500, -1000, 1, -900>>

\* The sample left as it is.
SampleUnclamped(n) == n

\* Math.max(-1, Math.min(1, x))
ClampSample(n) ==
    IF n > SampleDen THEN SampleDen
    ELSE IF n < -SampleDen THEN -SampleDen
    ELSE n

\* The integer part of a / b for b > 0: truncation towards zero.
TruncDiv(a, b) == IF a >= 0 THEN a \div b ELSE -((-a) \div b)

\* ToInt16 of an integer: modulo 2^16, read as two's complement.
ToInt16(x) ==
    LET u == x % 65536
    IN  IF u >= 32768 THEN u - 65536 ELSE u

\* The 16-bit integer setInt16 stores for sample * 0x7FFF.
SampleToInt16(n) == ToInt16(TruncDiv(ClampSample(n) * 32767, SampleDen))

\* The two bytes setInt16(offset, v, true) writes, the other way round.
Int16BytesBigEndian(v) ==
    LET u == v % 65536
    IN  <<u \div 256, u % 256>>

\* The two bytes setInt16(offset, v, true) writes: little-endian.
Int16Bytes(v) ==
    LET u == v % 65536
    IN  <<u % 256, u \div 256>>

\* setUint16(offset, x, true)
Uint16Bytes(x) == <<x % 256, (x \div 256) % 256>>

\* setUint32(offset, x, true)
Uint32Bytes(x) ==
    <<x % 256, (x \div 256) % 256, (x \div 65536) % 256, (x \div 16777216) % 256>>

\* writeString for the four chunk names: their char codes.
TagRIFF == <<82, 73, 70, 70>>
TagWAVE == <<87, 65, 86, 69>>
TagFmt  == <<102, 109, 116, 32>>
TagData == <<100, 97, 116, 97>>

\* The header with the byte rate of one channel whatever their number.
WavHeaderMonoByteRate(numOfChan, frames, sr) ==
    LET length == frames * numOfChan * 2
    IN  TagRIFF \o Uint32Bytes(36 + length) \o TagWAVE \o TagFmt
        \o Uint32Bytes(16) \o Uint16Bytes(1) \o Uint16Bytes(numOfChan)
        \o Uint32Bytes(sr) \o Uint32Bytes(sr * 2)
        \o Uint16Bytes(numOfChan * 2) \o Uint16Bytes(16)
        \o TagData \o Uint32Bytes(length)

\* The 44 header bytes for numOfChan channels, `frames` frames, sample rate sr.
WavHeader(numOfChan, frames, sr) ==
    LET length == frames * numOfChan * 2
    IN  TagRIFF \o Uint32Bytes(36 + length) \o TagWAVE \o TagFmt
        \o Uint32Bytes(16) \o Uint16Bytes(1) \o Uint16Bytes(numOfChan)
        \o Uint32Bytes(sr) \o Uint32Bytes(sr * numOfChan * 2)
        \o Uint16Bytes(numOfChan * 2) \o Uint16Bytes(16)
        \o TagData \o Uint32Bytes(length)

\* The samples of frames i.. on, interleaved: for each frame, each channel.
RECURSIVE InterleavedFrom(_, _, _)
InterleavedFrom(channels, i, ch) ==
    IF i > Len(channels[1]) THEN <<>>
    ELSE IF ch > Len(channels) THEN InterleavedFrom(channels, i + 1, 1)
    ELSE Int16Bytes(SampleToInt16(channels[ch][i]))
         \o InterleavedFrom(channels, i, ch + 1)

\* exportToWavArrayBuffer(audioBuffer): the bytes of the ArrayBuffer.
\* buf.channels[ch][i] is getChannelData(ch - 1)[i - 1].
ExportToWavArrayBuffer(buf) ==
    WavHeader(Len(buf.channels), Len(buf.channels[1]), buf.sampleRate)
    \o InterleavedFrom(buf.channels, 1, 1)

\* The buffer of c channels and f frames at sample rate sr that holds the
\* samples from the k-th on, in the order of the frames, channel by channel.
BufferOf(sr, c, f, k) ==
    [sampleRate |-> sr,
     channels |-> [ch \in 1..c |-> [i \in 1..f |->
                      Samples[((k + (i - 1) * c + (ch - 1)) % Len(Samples)) + 1]]]]

\* The buffers exported.
AudioBuffers ==
    {BufferOf(sr, c, f, k) :
        sr \in {8000, 44100}, c \in 1..MaxChannels, f \in 1..MaxFrames,
        k \in 0..(Len(Samples) - 1)}

InitExport ==
    /\ HookIdle
    /\ calc \in [fn : {"exportToWavArrayBuffer"}, buf : AudioBuffers,
                  done : {FALSE}, out : {<<>>}]

\* exportToWavArrayBuffer(buf) returns.
ExportReturns ==
    /\ calc.fn = "exportToWavArrayBuffer"
    /\ ~calc.done
    /\ calc' = [calc EXCEPT !.done = TRUE, !.out = ExportToWavArrayBuffer(calc.buf)]
    /\ UNCHANGED hookVars

NextExport == ExportReturns

SpecExport == InitExport /\ [][NextExport]_vars

\* The 16-bit integer a decoder reads at the place of channel ch, frame i
\* of the exported bytes (the byte at offset k is out[k + 1]).
DecodedAt(ch, i) ==
    LET k == 44 + ((i - 1) * Len(calc.buf.channels) + (ch - 1)) * 2
        u == calc.out[k + 1] + 256 * calc.out[k + 2]
    IN  IF u >= 32768 THEN u - 65536 ELSE u

\* The places of the exported buffer whose sample lies in [-1, 1].
InRangePlaces ==
    {p \in (1..Len(calc.buf.channels)) \X (1..Len(calc.buf.channels[1])) :
        /\ calc.buf.channels[p[1]][p[2]] >= -SampleDen
        /\ calc.buf.channels[p[1]][p[2]] <= SampleDen}

\* C10, as stated: encoder round trip. For every sample s in [-1, 1], the
\* 16-bit integer v written for it satisfies |s - v / 32768| <= 1 / 32768.
\* (With s = n / SampleDen: |32768 * n - v * SampleDen| <= SampleDen.)
C10_AsStated ==
    (calc.fn = "exportToWavArrayBuffer" /\ calc.done) =>
        \A p \in InRangePlaces :
            LET d == 32768 * calc.buf.channels[p[1]][p[2]]
                     - DecodedAt(p[1], p[2]) * SampleDen
            IN  d <= SampleDen /\ -d <= SampleDen

\* C10, amended: for every sample s in [-1, 1], the 16-bit integer v
\* written for it satisfies |s - v / 32768| < 2 / 32768, in every channel
\* and frame.
C10_RoundTrip ==
    (calc.fn = "exportToWavArrayBuffer" /\ calc.done) =>
        \A p \in InRangePlaces :
            LET d == 32768 * calc.buf.channels[p[1]][p[2]]
                     - DecodedAt(p[1], p[2]) * SampleDen
            IN  d < 2 * SampleDen /\ -d < 2 * SampleDen

\* A two-channel, two-frame buffer was exported whose last sample is 0.9
\* and was written as 29490.
C10_Witness ==
    /\ calc.fn = "exportToWavArrayBuffer"
    /\ calc.done
    /\ Len(calc.buf.channels) = 2
    /\ Len(calc.buf.channels[1]) = 2
    /\ calc.buf.channels[2][2] = 900
    /\ DecodedAt(2, 2) = 29490

\* The unsigned 16-bit and 32-bit integers a little-endian reader finds at
\* byte offset k of the exported bytes.
U16At(k) == calc.out[k + 1] + 256 * calc.out[k + 2]
U32At(k) == U16At(k) + 65536 * U16At(k + 2)

\* The four bytes at offset k.
TagAt(k) == <<calc.out[k + 1], calc.out[k + 2], calc.out[k + 3], calc.out[k + 4]>>

\* C17: encoder layout. For a buffer of C channels, N frames and sample
\* rate R, exportToWavArrayBuffer returns exactly 44 + 2*N*C bytes; the
\* header reads RIFF size 36 + 2*N*C, format tag 1, channel count C, sample
\* rate R, byte rate R*C*2, block align 2*C, bit depth 16, data size 2*N*C;
\* and the sample of frame i, channel c is stored little-endian at byte
\* offset 44 + 2*(i*C + c).
C17_EncoderLayout ==
    (calc.fn = "exportToWavArrayBuffer" /\ calc.done) =>
        LET C == Len(calc.buf.channels)
            N == Len(calc.buf.channels[1])
            R == calc.buf.sampleRate
        IN  /\ Len(calc.out) = 44 + 2 * N * C
            /\ \A k \in 1..Len(calc.out) : calc.out[k] \in 0..255
            /\ TagAt(0) = <<82, 73, 70, 70>>
            /\ U32At(4) = 36 + 2 * N * C
            /\ TagAt(8) = <<87, 65, 86, 69>>
            /\ TagAt(12) = <<102, 109, 116, 32>>
            /\ U32At(16) = 16
            /\ U16At(20) = 1
            /\ U16At(22) = C
            /\ U32At(24) = R
            /\ U32At(28) = R * C * 2
            /\ U16At(32) = 2 * C
            /\ U16At(34) = 16
            /\ TagAt(36) = <<100, 97, 116, 97>>
            /\ U32At(40) = 2 * N * C
            /\ \A c \in 0..(C - 1), i \in 0..(N - 1) :
                  LET k == 44 + 2 * (i * C + c)
                      v == SampleToInt16(calc.buf.channels[c + 1][i + 1])
                  IN  /\ calc.out[k + 1] = v % 256
                      /\ calc.out[k + 2] = (v % 65536) \div 256

\* A buffer of two channels and two frames at 44100 Hz was exported: 52
\* bytes, byte rate 176400, and the sample 1.0 of frame 1, channel 1 stored
\* as FF 7F at offset 50.
C17_Witness ==
    /\ calc.fn = "exportToWavArrayBuffer"
    /\ calc.done
    /\ Len(calc.buf.channels) = 2
    /\ Len(calc.buf.channels[1]) = 2
    /\ calc.buf.sampleRate = 44100
    /\ Len(calc.out) = 52
    /\ U32At(28) = 176400
    /\ calc.buf.channels[2][2] = 1000
    /\ calc.out[51] = 255
    /\ calc.out[52] = 127

\* The places of the exported buffer: channel, frame.
AllPlaces ==
    (1..Len(calc.buf.channels)) \X (1..Len(calc.buf.channels[1]))

\* C22: clipping before scaling. For every input sample, those below -1 and
\* above 1 included, the 16-bit integer written lies in [-32767, 32767];
\* samples >= 1 are written as 32767 and samples <= -1 as -32767, and no
\* value wraps around to the opposite sign.
C22_ClipBeforeScale ==
    (calc.fn = "exportToWavArrayBuffer" /\ calc.done) =>
        \A p \in AllPlaces :
            LET n == calc.buf.channels[p[1]][p[2]]
                v == DecodedAt(p[1], p[2])
            IN  /\ v >= -32767 /\ v <= 32767
                /\ n >= SampleDen => v = 32767
                /\ n <= -SampleDen => v = -32767
                /\ n > 0 => v >= 0
                /\ n < 0 => v <= 0

\* A buffer was exported that holds the samples -1.5 and 1.5, written as
\* -32767 and 32767.
C22_Witness ==
    /\ calc.fn = "exportToWavArrayBuffer"
    /\ calc.done
    /\ \E p \in AllPlaces, q \in AllPlaces :
          /\ calc.buf.channels[p[1]][p[2]] = -1500
          /\ DecodedAt(p[1], p[2]) = -32767
          /\ calc.buf.channels[q[1]][q[2]] = 1500
          /\ DecodedAt(q[1], q[2]) = 32767

(***************************************************************************)
(* Two texts with one cache key                                            *)
(***************************************************************************)

\* Two texts of 22 characters with the same first 20 characters and the
\* same hash: 31 * 65 + 97 = 31 * 66 + 66.
TxtLongAa == [i \in 1..20 |-> "x"] \o <<"A", "a">>
TxtLongBB == [i \in 1..20 |-> "x"] \o <<"B", "B">>

CollidingRequests ==
    {<<Opt(TRUE, "alloy", 10), TxtLongAa>>, <<Opt(TRUE, "alloy", 10), TxtLongBB>>}

\* The texts and voice ids (none with an underscore) the key is computed of.
KeyTexts ==
    {TxtEmpty, TxtHi, TxtYo, <<"1">>, <<"_", "1">>, <<"-", "1">>,
     <<"A", "a">>, <<"B", "B">>, [i \in 1..20 |-> "x"], TxtLongAa, TxtLongBB}
KeyVoices == {"alloy", "echo", ""}

\* Either the hook on a host where nothing fails, or two calls of
\* generateCacheKey looked at on their own.
InitCollide ==
    \/ InitScenario
    \/ /\ HookIdle
       /\ calc \in [fn : {"generateCacheKey"}, text : KeyTexts, voice : KeyVoices,
                     text2 : KeyTexts, voice2 : KeyVoices, done : {FALSE},
                     key : {<<>>}, key2 : {<<>>}]

\* generateCacheKey(text, voice) and generateCacheKey(text2, voice2) return.
KeyReturns ==
    /\ calc.fn = "generateCacheKey"
    /\ ~calc.done
    /\ calc' = [calc EXCEPT !.done = TRUE,
                            !.key = KeyString(calc.text, calc.voice),
                            !.key2 = KeyString(calc.text2, calc.voice2)]
    /\ UNCHANGED hookVars

NextCollide ==
    \/ KeyReturns
    \/ /\ calc = NoCalc
       /\ \/ OpenCache
          \/ \E r \in CollidingRequests : Speak(r[1], r[2])
          \/ \E i \in CallIds : CacheReadDone(i)
          \/ \E i \in CallIds : RenderDone(i)
          \/ DispatchEvent
          \/ AudioLoaded
          \/ AudioEnded

\* The hook with nothing failing, asked for the two texts.
SpecCollide == InitCollide /\ [][NextCollide]_vars

\* h := 31 * h + charCode modulo 2^32, on the halves.
Times31Step(h, code) ==
    LET lo == 31 * h.lo + code
        hi == 31 * h.hi + (lo \div HalfMod)
    IN  [hi |-> hi % HalfMod, lo |-> lo % HalfMod]

RECURSIVE Times31From(_, _, _)
Times31From(text, i, h) ==
    IF h.hi < HalfMod /\ i > Len(text) THEN h
    ELSE Times31From(text, i + 1, Times31Step(h, CharCode(text[i])))

\* The three components the key is made of.
SameComponents(t1, v1, t2, v2) ==
    /\ v1 = v2
    /\ TextHash(t1) = TextHash(t2)
    /\ Slice(t1, 1, Min(20, Len(t1))) = Slice(t2, 1, Min(20, Len(t2)))

\* Invocation j was served from the cache what invocation i had stored for
\* another text.
ServedAnothersAudio(i, j) ==
    /\ calls[i].wrote
    /\ calls[j].lookup = "hit"
    /\ calls[i].text # calls[j].text

\* C24: cache key. generateCacheKey is a function of (text, voice) only; its
\* hash component is h := 31 * h + charCode wrapped to a signed 32-bit
\* integer over all characters of the text, from 0; for voice ids without an
\* underscore two (voice, text) pairs get the same key if and only if the
\* voices, the hashes and the first 20 characters of the texts are equal; two
\* different texts that agree on the three share one cache entry, and the
\* second is served the audio of the first.
C24_CacheKey ==
    /\ (calc.fn = "generateCacheKey" /\ calc.done) =>
          /\ TextHash(calc.text) =
                ToInt32(Times31From(calc.text, 1, [hi |-> 0, lo |-> 0]))
          /\ calc.key = KeyString(calc.text, calc.voice)
          /\ (calc.key = calc.key2)
                <=> SameComponents(calc.text, calc.voice, calc.text2, calc.voice2)
          /\ (GenerateCacheKey(calc.text, calc.voice) =
                 GenerateCacheKey(calc.text2, calc.voice2))
                <=> (calc.key = calc.key2)
    /\ Cardinality(DOMAIN db.audioCache) <= 1
    /\ \A j \in CallIds :
          LET writers == {i \in calls[j].after :
                            /\ calls[i].wrote
                            /\ SameComponents(calls[i].text, calls[i].voice,
                                              calls[j].text, calls[j].voice)}
          IN  (calls[j].lookup # "none" /\ writers # {})
              => /\ calls[j].lookup = "hit"
                 /\ calls[j].synth = 0
                 /\ \E i \in writers :
                       calls[j].data =
                           WavOf(calls[i].text, calls[i].voice, calls[i].rate,
                                 SampleRate)
                 /\ Finished(calls[j]) => calls[j].handed = calls[j].data

\* The text ending in "BB" was asked for after the text ending in "Aa" had
\* been synthesized and stored, and was handed the audio of the latter.
C24_Witness ==
    /\ KeyString(TxtLongAa, "alloy") = KeyString(TxtLongBB, "alloy")
    /\ \E i \in CallIds, j \in CallIds :
          /\ ServedAnothersAudio(i, j)
          /\ calls[i].text = TxtLongAa
          /\ calls[j].text = TxtLongBB
          /\ calls[j].handed =
                WavOf(TxtLongAa, "alloy", calls[i].rate, SampleRate)
          /\ calls[j].played

(***************************************************************************)
(* The choice of a native voice in useBrowserTTS on its own                *)
(***************************************************************************)

\* The gender label of a profile of HIGH_QUALITY_VOICES.
GenderOf(id) ==
    IF id \in {IdAlloy, IdNova, IdShimmer} THEN "female" ELSE "male"

\* getVoiceGender: the label of the profile with exactly this id, 'female'
\* when there is none.
GetVoiceGender(voiceId) ==
    IF voiceId \in HighQualityVoices THEN GenderOf(voiceId) ELSE "female"

\* String.prototype.includes
Includes(s, pat) == \E i \in 1..(Len(s) + 1) : IsAt(s, i, pat)

\* name.match(/w1|w2|w3/i): one of the words occurs in the name, in
\* whatever case.
MatchesAny(name, words) == \E w \in words : Includes(ToLowerCase(name), w)

FemaleWords ==
    {<<"f", "e", "m", "a", "l", "e">>, <<"w", "o", "m", "a", "n">>,
     <<"g", "i", "r", "l">>}
MaleWords == {<<"m", "a", "l", "e">>, <<"m", "a", "n">>, <<"b", "o", "y">>}

\* Array.prototype.find as an index: the least one of the set, 0 for
\* undefined.
FirstOf(set) == IF set = {} THEN 0 ELSE CHOOSE k \in set : \A j \in set : k <= j

\* The voice useBrowserTTS gives the utterance, as its index in
\* getVoices(); 0 when it sets none.
SelectVoice(voices, voiceId) ==
    IF voiceId = <<>> \/ Len(voices) = 0 THEN 0
    ELSE LET voiceGender == GetVoiceGender(voiceId)
             en      == <<"e", "n">>
             byName  == {k \in 1..Len(voices) :
                           Includes(ToLowerCase(voices[k].name), ToLowerCase(voiceId))}
             byGender == {k \in 1..Len(voices) :
                           /\ IsAt(voices[k].lang, 1, en)
                           /\ \/ /\ voiceGender = "female"
                                 /\ MatchesAny(voices[k].name, FemaleWords)
                              \/ /\ voiceGender = "male"
                                 /\ MatchesAny(voices[k].name, MaleWords)}
             byLang  == {k \in 1..Len(voices) : IsAt(voices[k].lang, 1, en)}
         IN  IF byName # {} THEN FirstOf(byName)
             ELSE IF byGender # {} THEN FirstOf(byGender)
             ELSE FirstOf(byLang)

\* The native voices of a host: names with and without a gender word or the
\* id, in English and in French. The lists getVoices() returns hold at most
\* MaxVoices of them.
MaxVoices == 2
LangEnUS == <<"e", "n", "-", "U", "S">>
LangFrFR == <<"f", "r", "-", "F", "R">>
NativeVoices ==
    {[name |-> <<"F", "e", "m", "a", "l", "e">>, lang |-> LangEnUS],
     [name |-> <<"M", "a", "l", "e">>, lang |-> LangEnUS],
     [name |-> <<"A", "n", "n", "a">>, lang |-> LangEnUS],
     [name |-> <<"E", "c", "h", "o">>, lang |-> LangFrFR],
     [name |-> <<"W", "o", "m", "a", "n">>, lang |-> LangFrFR],
     [name |-> <<"A", "n", "n", "a">>, lang |-> LangFrFR]}
VoiceLists == UNION {[1..n -> NativeVoices] : n \in 0..MaxVoices}

\* The primary language subtags of the user's language.
UserLangs == {<<"e", "n">>, <<"f", "r">>}

InitSelect ==
    /\ HookIdle
    /\ calc \in [fn : {"useBrowserTTS"}, voices : VoiceLists,
                  voiceId : {IdEcho, IdNova}, userLang : UserLangs,
                  done : {FALSE}, out : {0}]

\* useBrowserTTS has chosen the utterance's voice.
SelectReturns ==
    /\ calc.fn = "useBrowserTTS"
    /\ ~calc.done
    /\ calc' = [calc EXCEPT !.done = TRUE,
                            !.out = SelectVoice(calc.voices, calc.voiceId)]
    /\ UNCHANGED hookVars

NextSelect == SelectReturns

SpecSelect == InitSelect /\ [][NextSelect]_vars

\* The name carries a gender word that agrees with the label: a word of the
\* label's gender, and, for 'male', none of the other gender's.
AgreesWith(name, gender) ==
    IF gender = "female" THEN MatchesAny(name, FemaleWords)
    ELSE MatchesAny(name, MaleWords) /\ ~MatchesAny(name, FemaleWords)

\* C27: native voice selection priority. The selected voice is the first
\* whose name contains the requested voice id, in whatever case; if there is
\* none, the first in the user's language whose name carries a gender word
\* agreeing with the requested profile's gender label (a voice named for the
\* opposite gender is not chosen by this tier); if there is none, the first
\* in the user's language; if there is none, no voice is set.
C27_SelectionPriority ==
    (calc.fn = "useBrowserTTS" /\ calc.done) =>
        LET voices == calc.voices
            inLang == {k \in 1..Len(voices) : IsAt(voices[k].lang, 1, calc.userLang)}
            byName == {k \in 1..Len(voices) :
                         Includes(ToLowerCase(voices[k].name),
                                  ToLowerCase(calc.voiceId))}
            byGender == {k \in inLang :
                           AgreesWith(voices[k].name, GenderOf(calc.voiceId))}
        IN  calc.out = IF byName # {} THEN FirstOf(byName)
                       ELSE IF byGender # {} THEN FirstOf(byGender)
                       ELSE FirstOf(inLang)

=============================================================================
